---------------------------- MODULE Spec2Model ----------------------------
(***************************************************************************)
(* Verification model of the CardaLabs SDK aggregation core:               *)
(*   - CircuitBreaker, RetryExecutor (src/src/utils/errors.ts)             *)
(*   - MemoryCache               (src/src/sdk/cache/memory-cache.ts)       *)
(*   - FieldRouter               (src/unnamed/part_009)                    *)
(*   - DataAggregator            (src/src/sdk/aggregator/data-aggregator.ts)*)
(* Each component has its own specification (BreakerSpec, CacheSpec,       *)
(* RouterSpec, AggSpec, RetrySpec); the variables of the other components  *)
(* stay at their idle values.                                              *)
(***************************************************************************)
EXTENDS Integers, Sequences, FiniteSets, TLC

VARIABLES
    \* ---- CircuitBreaker ----
    config,            \* this.config: failureThreshold, recoveryTime, successThreshold
    state,             \* this.state
    failures,          \* this.failures
    lastFailureTime,   \* this.lastFailureTime (NoTime for null, or a clock value)
    cbNow,             \* Date.now() as seen by the breaker
    inFlight,          \* number of admitted calls whose fn() has not settled yet
    consecutive,       \* history: failed completions since the last success/reset
    cbLast,            \* history: the last breaker step
    inFlightHalfOpen,  \* how many of the inFlight calls were admitted while half-open
    cbAdmittedIn,      \* history: the state in which the call that just settled was admitted
    halfOpenSuccesses, \* history: successes in a row since the breaker became half-open
    \* ---- MemoryCache ----
    options,           \* this.options: maxSize, defaultTtl
    cache,             \* this.cache: key -> entry (NoEntry when the key is absent)
    head,              \* this.head
    tail,              \* this.tail
    prev,              \* LRUNode.prev of the node of each key
    next,              \* LRUNode.next of the node of each key
    statsSize,         \* this.stats.size
    now,               \* Date.now() as seen by the cache
    recency,           \* history: keys by most recent successful get/set, newest first
    cLast,             \* history: the last cache operation, its result and events
    \* ---- FieldRouter / DataAggregator ----
    providers,         \* this.providers: name -> registered?, declared fields
    fieldPriorities,   \* FieldRouter.fieldPriorities: field -> provider names in order
    metrics,           \* FieldRouter.metrics: name -> ProviderMetrics
    registrationOrder, \* the keys of FieldRouter.providers in Map (insertion) order
    routed,            \* history: the last router call, its arguments and what it returned
    calls,             \* per provider name, history: updateMetrics calls since it was
                       \* registered, how many of them failed, provider invocations
                       \* settled, late responses that have arrived; and the calls
                       \* abandoned by a timeout whose response is still to arrive
    pc,                \* where the running aggregate call is
    req,               \* the request: record kind (token/wallet), fields
    strategy,          \* request.strategy.conflictResolution, once it has been read
    routingPlan,       \* routingPlan: field -> RoutingPlan
    planOrder,         \* the keys of routingPlan in insertion order
    providerRequests,  \* providerRequests: <<provider, fields>> in insertion order
    executions,        \* the parallel phase's ProviderExecution per providerRequests entry
    cursor,            \* fallback loop position: <<index in planOrder, index in fallbackProviders>>
    fallbackExecutions,\* fallbackExecutions
    fallbackLog,       \* history: the fallback calls made, in order: field, position in
                       \* the field's fallbackProviders, provider, whether it succeeded
    response,          \* what the aggregate call returned
    \* ---- RetryExecutor ----
    retryConfig,       \* the config execute runs with; hasShouldRetry: a predicate is set
    rPc,               \* where the execute call is: idle, calling, sleeping, resolved, rejected
    attempt,           \* the loop variable attempt
    attempts,          \* this.attempts
    invocations,       \* history: every fn() invocation of this call, its outcome, whether
                       \* shouldRetry was asked about it and what it answered
    slept,             \* history: the delays this call has slept
    settled,           \* what execute resolved or rejected with
    secondCall,        \* a second execute call on the same executor: its position
                       \* and its attempt number
    \* ---- DefaultCacheKeyBuilder ----
    keyCall            \* the last builder call: its arguments, the caller's arrays
                       \* after it, and the key returned

cbVars ==
    <<config, state, failures, lastFailureTime, cbNow, inFlight, consecutive, cbLast,
      inFlightHalfOpen, cbAdmittedIn, halfOpenSuccesses>>
cacheVars == <<options, cache, head, tail, prev, next, statsSize, now, recency, cLast>>
aggVars ==
    <<providers, fieldPriorities, metrics, registrationOrder, routed, calls, pc, req, strategy,
      routingPlan, planOrder, providerRequests, executions, cursor, fallbackExecutions,
      fallbackLog, response>>

retryVars == <<retryConfig, rPc, attempt, attempts, invocations, slept, settled, secondCall>>

\* What a step of one component leaves alone.
BreakerFrame == UNCHANGED <<cacheVars, aggVars, retryVars, keyCall>>
CacheFrame == UNCHANGED <<cbVars, aggVars, retryVars, keyCall>>
AggFrame == UNCHANGED <<cbVars, cacheVars, retryVars, keyCall>>
RetryFrame == UNCHANGED <<cbVars, cacheVars, aggVars, keyCall>>
RouterFrame ==
    UNCHANGED <<cbVars, cacheVars, retryVars, keyCall, pc, req, strategy, routingPlan, planOrder,
                providerRequests, executions, cursor, fallbackExecutions, fallbackLog,
                response>>

NULL == "null"

\* lastFailureTime = null
NoTime == -1

\* set() called without a ttl argument
NoTtl == -1

(***************************************************************************)
(* Generic helpers                                                         *)
(***************************************************************************)
Max(a, b) == IF a >= b THEN a ELSE b

Range(s) == {s[i] : i \in 1..Len(s)}

RECURSIVE SeqWithout(_, _)
SeqWithout(s, x) ==
    IF s = <<>> THEN <<>>
    ELSE IF Head(s) = x THEN SeqWithout(Tail(s), x)
    ELSE <<Head(s)>> \o SeqWithout(Tail(s), x)

(***************************************************************************)
(* CircuitBreaker                                                          *)
(***************************************************************************)
\* Bounds of the breaker model.
MaxThreshold == 3
MaxClock == 3
MaxInFlight == 2
MaxFailures == 4

\* shouldAttemptRecovery() asking for more than recoveryTime
shouldAttemptRecoveryMutStrict ==
    IF lastFailureTime = NoTime THEN TRUE
    ELSE cbNow - lastFailureTime > config.recoveryTime

\* shouldAttemptRecovery() refusing for good once a failure has been recorded
shouldAttemptRecoveryMutNever ==
    lastFailureTime = NoTime

\* shouldAttemptRecovery()
shouldAttemptRecovery ==
    IF lastFailureTime = NoTime THEN TRUE
    ELSE cbNow - lastFailureTime >= config.recoveryTime

\* execute(): the synchronous prefix up to `await fn()`; the call is admitted.
CBAdmit ==
    /\ BreakerFrame
    /\ inFlight < MaxInFlight
    /\ \/ state # "open" /\ UNCHANGED state
       \/ state = "open" /\ shouldAttemptRecovery /\ state' = "half-open"
    /\ inFlight' = inFlight + 1
    /\ inFlightHalfOpen' = IF state' = "half-open" THEN inFlightHalfOpen + 1
                           ELSE inFlightHalfOpen
    /\ halfOpenSuccesses' = IF state = "open" THEN 0 ELSE halfOpenSuccesses
    /\ cbLast' = "admit"
    /\ UNCHANGED <<config, failures, lastFailureTime, cbNow, consecutive, cbAdmittedIn>>

\* execute() while open and before recovery: throws 'Circuit breaker is open'.
CBReject ==
    /\ BreakerFrame
    /\ state = "open"
    /\ ~shouldAttemptRecovery
    /\ cbLast' = "reject"
    /\ UNCHANGED <<config, state, failures, lastFailureTime, cbNow, inFlight, consecutive,
                   inFlightHalfOpen, cbAdmittedIn, halfOpenSuccesses>>

\* onSuccess(): the new <<state, failures>>.
onSuccessMutNoReset(st, f) ==
    IF st = "half-open"
    THEN IF Max(0, f - 1) = 0 THEN <<"closed", 0>> ELSE <<st, Max(0, f - 1)>>
    ELSE <<st, f>>

onSuccess(st, f) ==
    IF st = "half-open"
    THEN IF Max(0, f - 1) = 0 THEN <<"closed", 0>> ELSE <<st, Max(0, f - 1)>>
    ELSE <<st, 0>>

\* onFailure opening only above the threshold
onFailureMutLate(st, f) ==
    IF f + 1 > config.failureThreshold THEN <<"open", f + 1>> ELSE <<st, f + 1>>

\* onFailure(): the new <<state, failures>>.
onFailure(st, f) ==
    IF f + 1 >= config.failureThreshold THEN <<"open", f + 1>> ELSE <<st, f + 1>>

\* The awaited fn() of one admitted call settles; the call was admitted in
\* state admittedIn.
Settles(admittedIn) ==
    /\ inFlight > 0
    /\ IF admittedIn = "half-open" THEN inFlightHalfOpen > 0
       ELSE inFlight - inFlightHalfOpen > 0
    /\ inFlight' = inFlight - 1
    /\ inFlightHalfOpen' = IF admittedIn = "half-open" THEN inFlightHalfOpen - 1
                           ELSE inFlightHalfOpen
    /\ cbAdmittedIn' = admittedIn

\* fn() resolved: execute() runs onSuccess() and returns the result.
CBSucceed(admittedIn) ==
    /\ BreakerFrame
    /\ Settles(admittedIn)
    /\ halfOpenSuccesses' = IF state = "half-open" THEN halfOpenSuccesses + 1 ELSE 0
    /\ state' = onSuccess(state, failures)[1]
    /\ failures' = onSuccess(state, failures)[2]
    /\ consecutive' = 0
    /\ cbLast' = "success"
    /\ UNCHANGED <<config, lastFailureTime, cbNow>>

\* fn() rejected: execute() runs onFailure() and rethrows.
CBFail(admittedIn) ==
    /\ BreakerFrame
    /\ Settles(admittedIn)
    /\ halfOpenSuccesses' = 0
    /\ failures < MaxFailures
    /\ state' = onFailure(state, failures)[1]
    /\ failures' = onFailure(state, failures)[2]
    /\ lastFailureTime' = cbNow
    /\ consecutive' = consecutive + 1
    /\ cbLast' = "failure"
    /\ UNCHANGED <<config, cbNow>>

\* reset()
CBReset ==
    /\ BreakerFrame
    /\ state' = "closed"
    /\ failures' = 0
    /\ lastFailureTime' = NoTime
    /\ consecutive' = 0
    /\ halfOpenSuccesses' = 0
    /\ cbLast' = "reset"
    /\ UNCHANGED <<config, cbNow, inFlight, inFlightHalfOpen, cbAdmittedIn>>

\* Time passes.
CBTick ==
    /\ BreakerFrame
    /\ cbNow < MaxClock
    /\ cbNow' = cbNow + 1
    /\ cbLast' = "tick"
    /\ UNCHANGED <<config, state, failures, lastFailureTime, inFlight, consecutive,
                   inFlightHalfOpen, cbAdmittedIn, halfOpenSuccesses>>

CBNext ==
    \/ CBAdmit
    \/ CBReject
    \/ \E admittedIn \in {"closed", "half-open"} : CBSucceed(admittedIn)
    \/ \E admittedIn \in {"closed", "half-open"} : CBFail(admittedIn)
    \/ CBReset
    \/ CBTick

(***************************************************************************)
(* MemoryCache                                                             *)
(***************************************************************************)
Keys == {"k1", "k2", "k3"}
NoEntry == [value |-> "absent", expiresAt |-> 0]

\* Bounds of the cache model.
MaxCapacity == 2
MaxTicks == 1

\* Program constants.
DefaultTtl == 300
MsPerSecond == 1000

Present(c) == {k \in Keys : c[k] # NoEntry}

\* The cache's mutable data structure as one record, threaded through the helpers.
Cur ==
    [cache |-> cache, head |-> head, tail |-> tail, prev |-> prev, next |-> next,
     size |-> statsSize, events |-> <<>>]

\* emitEvent(event, key): appended to the events of the running operation.
emitEvent(s, event, key) == [s EXCEPT !.events = Append(@, <<event, key>>)]

\* this.eventListeners, in registration order; l1 throws on every event.
eventListeners == <<"l1", "l2">>

\* The loop of emitEvent(event, key): every listener is called inside its own
\* try/catch, so a throwing listener does not end the loop.  got is what
\* each listener has received.
RECURSIVE callListeners(_, _, _)
callListeners(listeners, e, got) ==
    IF listeners = <<>> THEN got
    ELSE callListeners(Tail(listeners), e, [got EXCEPT ![Head(listeners)] = Append(@, e)])

\* What the listeners received from the emitEvent calls of one operation.
RECURSIVE delivered(_)
delivered(events) ==
    IF events = <<>> THEN [l \in Range(eventListeners) |-> <<>>]
    ELSE callListeners(eventListeners, events[Len(events)],
                       delivered(SubSeq(events, 1, Len(events) - 1)))

\* isExpired(entry)
isExpiredMutGeq(entry) == now >= entry.expiresAt

isExpired(entry) == now > entry.expiresAt

\* deleteNode leaving head and tail where they were
deleteNodeMutKeepEnds(s, k) ==
    [s EXCEPT !.cache = [@ EXCEPT ![k] = NoEntry],
              !.next = [IF s.prev[k] # NULL THEN [s.next EXCEPT ![s.prev[k]] = s.next[k]]
                        ELSE s.next EXCEPT ![k] = NULL],
              !.prev = [IF s.next[k] # NULL THEN [s.prev EXCEPT ![s.next[k]] = s.prev[k]]
                        ELSE s.prev EXCEPT ![k] = NULL],
              !.size = @ - 1]

\* deleteNode(node)
deleteNode(s, k) ==
    LET p == s.prev[k]
        n == s.next[k]
        next1 == IF p # NULL THEN [s.next EXCEPT ![p] = n] ELSE s.next
        head1 == IF p # NULL THEN s.head ELSE n
        prev1 == IF n # NULL THEN [s.prev EXCEPT ![n] = p] ELSE s.prev
        tail1 == IF n # NULL THEN s.tail ELSE p
    IN  [s EXCEPT !.cache = [@ EXCEPT ![k] = NoEntry],
                  !.next = [next1 EXCEPT ![k] = NULL],
                  !.prev = [prev1 EXCEPT ![k] = NULL],
                  !.head = head1,
                  !.tail = tail1,
                  !.size = @ - 1]

\* addToHead(node)
addToHead(s, k) ==
    LET prev1 == [s.prev EXCEPT ![k] = NULL]
        next1 == [s.next EXCEPT ![k] = s.head]
        prev2 == IF s.head # NULL THEN [prev1 EXCEPT ![s.head] = k] ELSE prev1
    IN  [s EXCEPT !.prev = prev2,
                  !.next = next1,
                  !.head = k,
                  !.tail = IF s.tail = NULL THEN k ELSE s.tail]

\* moveToHead(node)
moveToHeadMutNoop(s, k) == s

moveToHead(s, k) ==
    LET p == s.prev[k]
        n == s.next[k]
    IN  IF p = NULL THEN s
        ELSE LET next1 == [s.next EXCEPT ![p] = n]
                 prev1 == IF n # NULL THEN [s.prev EXCEPT ![n] = p] ELSE s.prev
                 tail1 == IF n # NULL THEN s.tail ELSE p
             IN  addToHead([s EXCEPT !.next = next1, !.prev = prev1, !.tail = tail1], k)

\* evictLRU()
evictLRU(s) ==
    IF s.tail = NULL THEN s
    ELSE emitEvent(deleteNode(s, s.tail), "evicted", s.tail)

\* get(key): the resulting structure and the returned value.
getOp(s, k) ==
    IF s.cache[k] = NoEntry
    THEN [s |-> emitEvent(s, "miss", k), ret |-> NULL]
    ELSE IF isExpired(s.cache[k])
    THEN [s |-> emitEvent(deleteNode(s, k), "expired", k), ret |-> NULL]
    ELSE [s |-> emitEvent(moveToHead(s, k), "hit", k), ret |-> s.cache[k].value]

\* set(key, value, ttl)
setOp(s, k, v, ttl) ==
    LET timeToLive == (IF ttl = NoTtl THEN options.defaultTtl ELSE ttl) * MsPerSecond
        entry == [value |-> v, expiresAt |-> now + timeToLive]
    IN  IF s.cache[k] # NoEntry
        THEN emitEvent(moveToHead([s EXCEPT !.cache = [@ EXCEPT ![k] = entry]], k), "set", k)
        ELSE LET s1 == IF Cardinality(Present(s.cache)) >= options.maxSize
                       THEN evictLRU(s) ELSE s
                 s2 == addToHead([s1 EXCEPT !.cache = [@ EXCEPT ![k] = entry]], k)
             IN  emitEvent([s2 EXCEPT !.size = @ + 1], "set", k)

\* delete(key)
deleteOp(s, k) ==
    IF s.cache[k] = NoEntry THEN [s |-> s, ret |-> "false"]
    ELSE [s |-> emitEvent(deleteNode(s, k), "delete", k), ret |-> "true"]

\* clear()
clearOp(s) ==
    emitEvent([s EXCEPT !.cache = [k \in Keys |-> NoEntry],
                        !.head = NULL, !.tail = NULL,
                        !.prev = [k \in Keys |-> NULL],
                        !.next = [k \in Keys |-> NULL],
                        !.size = 0], "clear", "")

\* has(key)
hasOp(s, k) ==
    IF s.cache[k] = NoEntry THEN [s |-> s, ret |-> "false"]
    ELSE IF isExpired(s.cache[k]) THEN [s |-> deleteNode(s, k), ret |-> "false"]
    ELSE [s |-> s, ret |-> "true"]

\* cleanupExpired(): the expired keys are collected first, then deleted one by one.
RECURSIVE cleanupKeys(_, _)
cleanupKeys(s, ks) ==
    IF ks = {} THEN s
    ELSE LET k == CHOOSE x \in ks : TRUE
         IN  cleanupKeys(emitEvent(deleteNode(s, k), "expired", k), ks \ {k})

cleanupExpired(s) ==
    LET expiredKeys == {k \in Present(s.cache) : isExpired(s.cache[k])}
    IN  [s |-> cleanupKeys(s, expiredKeys), ret |-> NULL]

\* The history of uses: the key moves to the front on a successful get or set and
\* leaves when its entry leaves the cache.
Touch(r, k) == <<k>> \o SeqWithout(r, k)

RECURSIVE Surviving(_, _)
Surviving(r, c) ==
    IF r = <<>> THEN <<>>
    ELSE IF c[Head(r)] = NoEntry THEN Surviving(Tail(r), c)
    ELSE <<Head(r)>> \o Surviving(Tail(r), c)

Install(s, op, key, ret, rec) ==
    /\ cache' = s.cache
    /\ head' = s.head
    /\ tail' = s.tail
    /\ prev' = s.prev
    /\ next' = s.next
    /\ statsSize' = s.size
    /\ recency' = Surviving(rec, s.cache)
    /\ cLast' = [op |-> op, key |-> key, ret |-> ret, events |-> s.events]
    /\ UNCHANGED <<options, now>>
    /\ CacheFrame

CacheGet(k) ==
    LET r == getOp(Cur, k)
    IN  Install(r.s, "get", k, r.ret, IF r.ret # NULL THEN Touch(recency, k) ELSE recency)

CacheSet(k, v, ttl) ==
    Install(setOp(Cur, k, v, ttl), "set", k, NULL, Touch(recency, k))

CacheDelete(k) ==
    LET r == deleteOp(Cur, k)
    IN  Install(r.s, "delete", k, r.ret, recency)

CacheClear == Install(clearOp(Cur), "clear", "", NULL, recency)

CacheHas(k) ==
    LET r == hasOp(Cur, k)
    IN  Install(r.s, "has", k, r.ret, recency)

\* cleanupExpired(), run by the cleanup timer, by getStats() or by a caller.
CacheCleanup ==
    LET r == cleanupExpired(Cur)
    IN  Install(r.s, "cleanup", "", r.ret, recency)

\* Time passes (one second).
CacheTick ==
    /\ now < MaxTicks * MsPerSecond
    /\ now' = now + MsPerSecond
    /\ cLast' = [op |-> "tick", key |-> "", ret |-> NULL, events |-> <<>>]
    /\ UNCHANGED <<options, cache, head, tail, prev, next, statsSize, recency>>
    /\ CacheFrame

CacheNext ==
    \/ \E k \in Keys : CacheGet(k)
    \/ \E k \in Keys, v \in {"v1", "v2"}, ttl \in {NoTtl, 0, 1} : CacheSet(k, v, ttl)
    \/ \E k \in Keys : CacheDelete(k)
    \/ CacheClear
    \/ \E k \in Keys : CacheHas(k)
    \/ CacheCleanup
    \/ CacheTick

(***************************************************************************)
(* FieldRouter                                                             *)
(***************************************************************************)
\* The updateMetrics calls followed per provider.
MaxUpdates == 3

Providers == {"A", "B", "C"}

Fields == {"f1", "f2"}

\* JavaScript undefined (a field missing from a provider's data).
UNDEF == "undefined"

\* The values a provider may report: f1 is a number, f2 an object whose two
\* instances hold the same members in a different key order.
FieldValues == [f1 |-> {"n045", "n046"}, f2 |-> {"oAB", "oBA"}]

\* JSON.stringify(value)
JSONstringify(v) ==
    CASE v = "n045" -> "0.45"
      [] v = "n046" -> "0.46"
      [] v = "oAB" -> "{\"a\":1,\"b\":2}"
      [] v = "oBA" -> "{\"b\":2,\"a\":1}"
      [] OTHER -> "undefined"

\* Deep equality of two reported values.
DeepEqual(v, w) ==
    \/ v = w
    \/ {v, w} = {"oAB", "oBA"}

Unregistered == [registered |-> FALSE, caps |-> {}]

Registered(p) == providers[p].registered

\* ProviderMetrics (avgResponseTime is the exact rational avgNum / avgDen,
\* successRate the exact fraction <<numerator, denominator>>).
NoMetrics ==
    [present |-> FALSE, totalRequests |-> 0, failedRequests |-> 0, avgNum |-> 0, avgDen |-> 1,
     successRate |-> <<0, 1>>]

\* registerProvider: the initial metrics
FreshMetrics ==
    [present |-> TRUE, totalRequests |-> 0, failedRequests |-> 0, avgNum |-> 1000, avgDen |-> 1,
     successRate |-> <<1, 1>>]

\* metrics.successRate
successRate(m) == m.successRate

\* updateMetrics that recomputes the success rate only after a failed call
updateMetricsMutStaleRate(ms, p, responseTime, success) ==
    IF ~ms[p].present THEN ms
    ELSE IF success
    THEN [ms EXCEPT ![p].totalRequests = @ + 1,
                    ![p].avgNum = responseTime * ms[p].avgDen + 9 * ms[p].avgNum,
                    ![p].avgDen = 10 * ms[p].avgDen]
    ELSE [ms EXCEPT ![p].totalRequests = @ + 1,
                    ![p].failedRequests = @ + 1,
                    ![p].successRate =
                        <<ms[p].totalRequests - ms[p].failedRequests,
                          ms[p].totalRequests + 1>>]

\* updateMetrics that averages the response time of failed calls in as well
updateMetricsMutFailureAveraged(ms, p, responseTime, success) ==
    IF ~ms[p].present THEN ms
    ELSE LET total == ms[p].totalRequests + 1
             failed == IF success THEN ms[p].failedRequests
                       ELSE ms[p].failedRequests + 1
         IN  [ms EXCEPT ![p].totalRequests = total,
                        ![p].failedRequests = failed,
                        ![p].avgNum = responseTime * ms[p].avgDen + 9 * ms[p].avgNum,
                        ![p].avgDen = 10 * ms[p].avgDen,
                        ![p].successRate = <<total - failed, total>>]

\* updateMetrics(provider, responseTime, success): alpha = 0.1, so the new
\* average is (responseTime + 9 * avg) / 10.
updateMetrics(ms, p, responseTime, success) ==
    IF ~ms[p].present THEN ms
    ELSE LET total == ms[p].totalRequests + 1
             failed == IF success THEN ms[p].failedRequests
                       ELSE ms[p].failedRequests + 1
         IN  [ms EXCEPT ![p].totalRequests = total,
                        ![p].failedRequests = failed,
                        ![p].avgNum = IF success
                                      THEN responseTime * ms[p].avgDen + 9 * ms[p].avgNum
                                      ELSE ms[p].avgNum,
                        ![p].avgDen = IF success THEN 10 * ms[p].avgDen ELSE ms[p].avgDen,
                        ![p].successRate = <<total - failed, total>>]

\* getProvidersForTokenField / getProvidersForWalletField
getProvidersForField(field) ==
    SelectSeq(registrationOrder, LAMBDA p : Registered(p) /\ field \in providers[p].caps)

Includes(s, x) == \E i \in 1..Len(s) : s[i] = x

\* getProviderByPriority ignoring the priority list
getProviderByPriorityMutFirst(field, availableProviders) ==
    availableProviders[1]

\* getProviderByPriority(field, availableProviders)
getProviderByPriority(field, availableProviders) ==
    LET priorities == fieldPriorities[field]
        hits == {i \in 1..Len(priorities) : Includes(availableProviders, priorities[i])}
    IN  IF hits # {}
        THEN priorities[CHOOSE i \in hits : \A j \in hits : i <= j]
        ELSE availableProviders[1]

\* getOptimalProvider(field, availableProviders, 'priority')
getOptimalProvider(field, availableProviders) ==
    IF Len(availableProviders) = 0 THEN NULL
    ELSE IF Len(availableProviders) = 1 THEN availableProviders[1]
    ELSE getProviderByPriority(field, availableProviders)

\* The fallback comparator without its response-time branch
SortsBeforeMutRateOnly(a, b) ==
    /\ metrics[a].present
    /\ metrics[b].present
    /\ successRate(metrics[a])[1] * successRate(metrics[b])[2]
          > successRate(metrics[b])[1] * successRate(metrics[a])[2]

\* The fallback comparator: a sorts strictly before b.
SortsBefore(a, b) ==
    LET ma == metrics[a]
        mb == metrics[b]
        ra == successRate(ma)
        rb == successRate(mb)
    IN  IF ~ma.present \/ ~mb.present THEN FALSE
        ELSE IF ra[1] * rb[2] # rb[1] * ra[2]
        THEN ra[1] * rb[2] > rb[1] * ra[2]
        ELSE ma.avgNum * mb.avgDen < mb.avgNum * ma.avgDen

\* Array.prototype.sort with that comparator (stable).
RECURSIVE InsertSorted(_, _)
InsertSorted(sorted, x) ==
    IF sorted = <<>> THEN <<x>>
    ELSE IF SortsBefore(x, Head(sorted)) THEN <<x>> \o sorted
    ELSE <<Head(sorted)>> \o InsertSorted(Tail(sorted), x)

RECURSIVE SortFallbacks(_)
SortFallbacks(s) ==
    IF s = <<>> THEN <<>>
    ELSE InsertSorted(SortFallbacks(SubSeq(s, 1, Len(s) - 1)), s[Len(s)])

\* createRoutingPlan returning null (estimates are exact fractions <<num, den>>)
NoPlan ==
    [exists |-> FALSE, provider |-> NULL, fallbackProviders |-> <<>>,
     estimated |-> [responseTime |-> <<0, 1>>, successRate |-> <<0, 1>>]]

\* createRoutingPlan without the priority-list branch
createRoutingPlanMutNoPriority(field, availableProviders) ==
    IF getOptimalProvider(field, availableProviders) = NULL THEN NoPlan
    ELSE [NoPlan EXCEPT !.exists = TRUE,
                        !.provider = getOptimalProvider(field, availableProviders)]

\* createRoutingPlan(field, availableProviders, strategy)
createRoutingPlan(field, availableProviders) ==
    LET primaryProvider == getOptimalProvider(field, availableProviders)
        priorities == fieldPriorities[field]
    IN  IF primaryProvider = NULL
        THEN IF Len(priorities) > 0
             THEN [exists |-> TRUE, provider |-> priorities[1],
                   fallbackProviders |-> Tail(priorities),
                   estimated |-> [responseTime |-> <<1000, 1>>, successRate |-> <<0, 1>>]]
             ELSE NoPlan
        ELSE [exists |-> TRUE, provider |-> primaryProvider,
              fallbackProviders |->
                  SortFallbacks(SelectSeq(availableProviders,
                                          LAMBDA p : p # primaryProvider)),
              estimated |->
                  IF metrics[primaryProvider].present
                  THEN [responseTime |-> <<metrics[primaryProvider].avgNum,
                                           metrics[primaryProvider].avgDen>>,
                        successRate |-> successRate(metrics[primaryProvider])]
                  ELSE [responseTime |-> <<1000, 1>>, successRate |-> <<1, 1>>]]

\* planTokenDataRouting / planWalletDataRouting: the plan of every field
planRouting(fields) ==
    [f \in Fields |->
        IF Includes(fields, f) THEN createRoutingPlan(f, getProvidersForField(f))
        ELSE NoPlan]

\* A provider name nothing has been counted for.
NoCalls == [updates |-> 0, failed |-> 0, invoked |-> 0, abandoned |-> 0, arrived |-> 0]

\* No router call made yet.
NoRouted ==
    [op |-> "none", field |-> "", fields |-> <<>>, candidates |-> <<>>,
     provider |-> NULL, plan |-> [f \in Fields |-> NoPlan]]

\* registerProvider(provider)
RegisterProvider(p, caps) ==
    /\ RouterFrame
    /\ providers' = [providers EXCEPT ![p] = [registered |-> TRUE, caps |-> caps]]
    /\ registrationOrder' = IF Includes(registrationOrder, p) THEN registrationOrder
                            ELSE Append(registrationOrder, p)
    /\ metrics' = IF metrics[p].present THEN metrics
                  ELSE [metrics EXCEPT ![p] = FreshMetrics]
    /\ routed' = [NoRouted EXCEPT !.op = "registerProvider", !.provider = p]
    /\ calls' = IF Registered(p) THEN calls ELSE [calls EXCEPT ![p] = NoCalls]
    /\ UNCHANGED fieldPriorities

\* unregisterProvider(providerName)
UnregisterProvider(p) ==
    /\ RouterFrame
    /\ providers' = [providers EXCEPT ![p] = Unregistered]
    /\ registrationOrder' = SeqWithout(registrationOrder, p)
    /\ metrics' = [metrics EXCEPT ![p] = NoMetrics]
    /\ routed' = [NoRouted EXCEPT !.op = "unregisterProvider", !.provider = p]
    /\ calls' = [calls EXCEPT ![p] = NoCalls]
    /\ UNCHANGED fieldPriorities

\* setFieldPriority(field, providers)
SetFieldPriority(f, list) ==
    /\ RouterFrame
    /\ fieldPriorities' = [fieldPriorities EXCEPT ![f] = list]
    /\ routed' = [NoRouted EXCEPT !.op = "setFieldPriority", !.field = f]
    /\ UNCHANGED <<providers, registrationOrder, metrics, calls>>

\* getOptimalProvider(field, availableProviders, 'priority') is called.
GetOptimalProvider(f, candidates) ==
    /\ RouterFrame
    /\ routed' = [NoRouted EXCEPT !.op = "getOptimalProvider", !.field = f,
                                  !.candidates = candidates,
                                  !.provider = getOptimalProvider(f, candidates)]
    /\ UNCHANGED <<providers, fieldPriorities, registrationOrder, metrics, calls>>

\* planTokenDataRouting(fields) / planWalletDataRouting(fields) is called.
PlanRouting(fields) ==
    /\ RouterFrame
    /\ routed' = [NoRouted EXCEPT !.op = "planRouting", !.fields = fields,
                                  !.plan = planRouting(fields)]
    /\ UNCHANGED <<providers, fieldPriorities, registrationOrder, metrics, calls>>

\* The response times handed to updateMetrics.
ResponseTimes == {10, 2000}

\* updateMetrics(provider, responseTime, success) is called.
UpdateMetrics(p, responseTime, success) ==
    /\ RouterFrame
    /\ metrics[p].totalRequests < MaxUpdates
    /\ metrics' = updateMetrics(metrics, p, responseTime, success)
    /\ calls' = IF Registered(p)
                THEN [calls EXCEPT ![p].updates = @ + 1,
                                   ![p].failed = IF success THEN @ ELSE @ + 1]
                ELSE calls
    /\ routed' = [NoRouted EXCEPT !.op = "updateMetrics", !.provider = p]
    /\ UNCHANGED <<providers, fieldPriorities, registrationOrder>>

\* The router used for its metrics only: two providers come and go and are
\* reported on.
MetricsNext ==
    \/ \E p \in {"A", "B"}, caps \in {{"f1"}} : RegisterProvider(p, caps)
    \/ \E p \in {"A", "B"} : UnregisterProvider(p)
    \/ \E p \in {"A", "B"}, responseTime \in ResponseTimes, success \in BOOLEAN :
          UpdateMetrics(p, responseTime, success)

RouterNext ==
    \/ \E p \in Providers, caps \in {{"f1"}, {"f1", "f2"}} : RegisterProvider(p, caps)
    \/ \E p \in Providers : UnregisterProvider(p)
    \/ \E f \in Fields, list \in {<<>>, <<"A", "B">>, <<"B", "A">>, <<"C", "A", "B">>} :
          SetFieldPriority(f, list)
    \/ \E f \in Fields,
          candidates \in {c \in UNION {[1..n -> Providers] : n \in 0..Cardinality(Providers)} :
                            \A i, j \in 1..Len(c) : c[i] = c[j] => i = j} :
          GetOptimalProvider(f, candidates)
    \/ \E fields \in {<<>>, <<"f1">>, <<"f2">>, <<"f1", "f2">>, <<"f2", "f1">>} :
          PlanRouting(fields)

(***************************************************************************)
(* DataAggregator                                                          *)
(***************************************************************************)
NoData == [f \in Fields |-> UNDEF]

\* ProviderExecution
Execution(p, ok, d, err, fs) ==
    [provider |-> p, success |-> ok, data |-> d, error |-> err,
     fieldsProvided |-> fs, pending |-> FALSE]

\* The outcomes of one provider call: a successful response with data, an
\* unsuccessful response (which carries its error), a thrown exception, or
\* the timeout winning the race.
Outcomes ==
    [kind : {"success"}, data : [Fields -> {"n045", "n046", "oAB", "oBA", UNDEF}]]
        \cup [kind : {"failure", "throw", "timeout"}, data : {NoData}]

\* As Outcomes, and the timeout winning the race against a call that answers
\* later on ("late"; after "timeout" the abandoned call never answers).
LateOutcomes == Outcomes \cup [kind : {"late"}, data : {NoData}]

\* The outcomes provider p can produce: its data holds a value or nothing for
\* every field it declares, nothing for the others.
CallOutcomes(p) ==
    {o \in LateOutcomes :
        o.kind = "success" =>
            \A f \in Fields :
                IF f \in providers[p].caps THEN o.data[f] \in FieldValues[f] \cup {UNDEF}
                ELSE o.data[f] = UNDEF}

\* Group fields by provider: providerRequests.get(p).push(field)
addRequest(reqs, p, f) ==
    IF \E i \in 1..Len(reqs) : reqs[i].provider = p
    THEN [i \in 1..Len(reqs) |->
            IF reqs[i].provider = p /\ ~Includes(reqs[i].fields, f)
            THEN [reqs[i] EXCEPT !.fields = Append(@, f)]
            ELSE reqs[i]]
    ELSE Append(reqs, [provider |-> p, fields |-> <<f>>])

RECURSIVE groupByPrimary(_, _, _)
groupByPrimary(plan, order, reqs) ==
    IF order = <<>> THEN reqs
    ELSE groupByPrimary(plan, Tail(order),
                        addRequest(reqs, plan[Head(order)].provider, Head(order)))

RECURSIVE addPriorityProviders(_, _, _, _)
addPriorityProviders(plan, f, names, reqs) ==
    IF names = <<>> THEN reqs
    ELSE LET p == Head(names)
             take == /\ p # plan[f].provider
                     /\ Registered(p)
                     /\ f \in providers[p].caps
         IN  addPriorityProviders(plan, f, Tail(names),
                                  IF take THEN addRequest(reqs, p, f) ELSE reqs)

RECURSIVE addAllPriorityProviders(_, _, _)
addAllPriorityProviders(plan, order, reqs) ==
    IF order = <<>> THEN reqs
    ELSE LET f == Head(order)
         IN  addAllPriorityProviders(plan, Tail(order),
                IF Len(fieldPriorities[f]) > 1
                THEN addPriorityProviders(plan, f, fieldPriorities[f], reqs)
                ELSE reqs)

\* The providerRequests map of executeTokenDataRequests / executeWalletDataRequests
buildProviderRequests(kind, plan, order) ==
    IF kind = "token"
    THEN addAllPriorityProviders(plan, order, groupByPrimary(plan, order, <<>>))
    ELSE groupByPrimary(plan, order, <<>>)

\* aggregateTokenData: the executions recorded for fields that have no plan
missingProviderExecutions(kind, fields, plan) ==
    IF kind # "token" THEN <<>>
    ELSE LET unrouted == SelectSeq(fields, LAMBDA f : ~plan[f].exists)
         IN  [i \in 1..Len(unrouted) |->
                Execution(IF Len(fieldPriorities[unrouted[i]]) > 0
                          THEN fieldPriorities[unrouted[i]][1] ELSE "unknown",
                          FALSE, NoData, "not_found", <<>>)]

\* executions.find((e) => e.provider === name)
findExecution(execs, name) ==
    LET hits == {i \in 1..Len(execs) : execs[i].provider = name}
    IN  IF hits = {} THEN 0 ELSE CHOOSE i \in hits : \A j \in hits : i <= j

CursorDone == [i |-> 0, j |-> 0]

\* The fallback loop up to its next provider call: field i of the plan,
\* fallback j of that field.
RECURSIVE nextFallbackCall(_, _, _, _, _)
nextFallbackCall(plan, order, execs, i, j) ==
    IF i > Len(order) THEN CursorDone
    ELSE LET p == plan[order[i]]
             k == findExecution(execs, p.provider)
         IN  IF k = 0 \/ execs[k].success \/ j > Len(p.fallbackProviders)
             THEN nextFallbackCall(plan, order, execs, i + 1, 1)
             ELSE LET fb == p.fallbackProviders[j]
                  IN  IF \/ ~Registered(fb)
                         \/ \E e \in 1..Len(execs) :
                                execs[e].provider = fb /\ execs[e].success
                      THEN nextFallbackCall(plan, order, execs, i, j + 1)
                      ELSE [i |-> i, j |-> j]

\* FieldAggregationResult (confidence is the exact fraction <<num, den>>)
NoResult ==
    [present |-> FALSE, value |-> UNDEF, sources |-> <<>>, confidence |-> <<0, 1>>,
     hasConflicts |-> FALSE, conflicts |-> <<>>]

\* getUniqueValues(values)
RECURSIVE getUniqueValues(_, _)
getUniqueValues(values, unique) ==
    IF values = <<>> THEN unique
    ELSE LET item == Head(values)
             key == JSONstringify(item.value)
         IN  getUniqueValues(Tail(values),
                IF \E i \in 1..Len(unique) : JSONstringify(unique[i].value) = key
                THEN [i \in 1..Len(unique) |->
                        IF JSONstringify(unique[i].value) = key
                        THEN [unique[i] EXCEPT !.count = @ + 1]
                        ELSE unique[i]]
                ELSE Append(unique, [provider |-> item.provider,
                                     value |-> item.value, count |-> 1]))

\* uniqueValues.filter((v) => v.value !== chosen.value)
conflictsWith(uniqueValues, chosen) ==
    SelectSeq(uniqueValues,
              LAMBDA v : JSONstringify(v.value) # JSONstringify(chosen.value))

\* resolveBypriority(field, values, uniqueValues)
resolveBypriority(values, uniqueValues) ==
    LET chosen == values[1]
    IN  [present |-> TRUE, value |-> chosen.value, sources |-> <<chosen.provider>>,
         confidence |-> <<4, 5>>, hasConflicts |-> TRUE,
         conflicts |-> conflictsWith(uniqueValues, chosen)]

\* The reduce keeping the later of two values with equal counts
RECURSIVE reduceMajorityMutLast(_, _)
reduceMajorityMutLast(uniqueValues, max) ==
    IF uniqueValues = <<>> THEN max
    ELSE reduceMajorityMutLast(Tail(uniqueValues),
                               IF Head(uniqueValues).count >= max.count
                               THEN Head(uniqueValues) ELSE max)

\* uniqueValues.reduce((max, current) => current.count > max.count ? current : max)
RECURSIVE reduceMajority(_, _)
reduceMajority(uniqueValues, max) ==
    IF uniqueValues = <<>> THEN max
    ELSE reduceMajority(Tail(uniqueValues),
                        IF Head(uniqueValues).count > max.count
                        THEN Head(uniqueValues) ELSE max)

\* resolveByMajority naming every provider that reported the field as a source
resolveByMajorityMutAllSources(values, uniqueValues) ==
    LET majority == reduceMajority(Tail(uniqueValues), Head(uniqueValues))
    IN  [present |-> TRUE, value |-> majority.value,
         sources |-> [i \in 1..Len(values) |-> values[i].provider],
         confidence |-> <<majority.count, Len(values)>>, hasConflicts |-> TRUE,
         conflicts |-> conflictsWith(uniqueValues, majority)]

\* resolveByMajority(field, values, uniqueValues)
resolveByMajority(values, uniqueValues) ==
    LET majority == reduceMajority(Tail(uniqueValues), Head(uniqueValues))
        agreeing == SelectSeq(values,
                       LAMBDA v : JSONstringify(v.value) = JSONstringify(majority.value))
    IN  [present |-> TRUE, value |-> majority.value,
         sources |-> [i \in 1..Len(agreeing) |-> agreeing[i].provider],
         confidence |-> <<majority.count, Len(values)>>, hasConflicts |-> TRUE,
         conflicts |-> conflictsWith(uniqueValues, majority)]

\* The switch of resolveFieldConflicts on strategy.conflictResolution
resolveByStrategy(values, uniqueValues, conflictResolution) ==
    IF conflictResolution = "majority"
    THEN resolveByMajority(values, uniqueValues)
    ELSE resolveBypriority(values, uniqueValues)

\* resolveFieldConflicts without its agreement branch
resolveFieldConflictsMutNoAgree(values, conflictResolution) ==
    resolveByStrategy(values, getUniqueValues(values, <<>>), conflictResolution)

\* resolveFieldConflicts(field, values, strategy)
resolveFieldConflicts(values, conflictResolution) ==
    LET uniqueValues == getUniqueValues(values, <<>>)
    IN  IF Len(uniqueValues) = 1
        THEN [present |-> TRUE, value |-> uniqueValues[1].value,
              sources |-> [i \in 1..Len(values) |-> values[i].provider],
              confidence |-> <<1, 1>>, hasConflicts |-> FALSE, conflicts |-> <<>>]
        ELSE resolveByStrategy(values, uniqueValues, conflictResolution)

\* aggregateField(field, executions, strategy)
aggregateField(field, execs, conflictResolution) ==
    LET validExecutions ==
            SelectSeq(execs, LAMBDA e : e.success /\ e.data[field] # UNDEF)
        values == [i \in 1..Len(validExecutions) |->
                      [provider |-> validExecutions[i].provider,
                       value |-> validExecutions[i].data[field]]]
    IN  IF Len(validExecutions) = 0 THEN NoResult
        ELSE IF Len(values) = 1
        THEN [present |-> TRUE, value |-> values[1].value,
              sources |-> <<values[1].provider>>, confidence |-> <<1, 1>>,
              hasConflicts |-> FALSE, conflicts |-> <<>>]
        ELSE resolveFieldConflicts(values, conflictResolution)

\* aggregateFieldResults(fields, executions, strategy)
aggregateFieldResults(fields, execs, conflictResolution) ==
    [f \in Fields |->
        IF Includes(fields, f) THEN aggregateField(f, execs, conflictResolution)
        ELSE NoResult]

\* Array.from(new Set(s))
RECURSIVE Dedupe(_, _)
Dedupe(s, acc) ==
    IF s = <<>> THEN acc
    ELSE Dedupe(Tail(s), IF Includes(acc, Head(s)) THEN acc ELSE Append(acc, Head(s)))

RECURSIVE collectSources(_, _)
collectSources(fields, results) ==
    IF fields = <<>> THEN <<>>
    ELSE (IF results[Head(fields)].present THEN results[Head(fields)].sources ELSE <<>>)
            \o collectSources(Tail(fields), results)

\* The data object {} of the catch branch.
EmptyData == [fields |-> NoData, stamped |-> FALSE, dataSource |-> <<>>]

\* buildTokenData / buildWalletData
buildData(fields, results) ==
    [fields |-> [f \in Fields |-> results[f].value],
     stamped |-> TRUE,
     dataSource |-> Dedupe(collectSources(fields, results), <<>>)]

\* providerHealth[execution.provider] = execution.success, later entries winning
providerHealth(execs) ==
    [p \in Providers \cup {"unknown"} |->
        LET hits == {i \in 1..Len(execs) : execs[i].provider = p}
        IN  IF hits = {} THEN "absent"
            ELSE IF execs[CHOOSE i \in hits : \A j \in hits : j <= i].success
            THEN "true" ELSE "false"]

\* buildResponseMetadata(executions, startTime, routingPlan)
buildResponseMetadata(execs) ==
    LET succeeded == SelectSeq(execs, LAMBDA e : e.success)
    IN  [dataSources |-> Dedupe([i \in 1..Len(succeeded) |-> succeeded[i].provider], <<>>),
         cacheStatus |-> "miss",
         hasProviderHealth |-> TRUE,
         providerHealth |-> providerHealth(execs)]

\* extractErrors with the success test inverted
extractErrorsMutSucceeded(execs) ==
    LET failed == SelectSeq(execs, LAMBDA e : e.success /\ e.error # "none")
    IN  [i \in 1..Len(failed) |->
            [provider |-> failed[i].provider, error |-> failed[i].error,
             recoverable |-> TRUE]]

\* extractErrors(executions)
extractErrors(execs) ==
    LET failed == SelectSeq(execs, LAMBDA e : ~e.success /\ e.error # "none")
    IN  [i \in 1..Len(failed) |->
            [provider |-> failed[i].provider, error |-> failed[i].error,
             recoverable |-> TRUE]]

\* The catch branch rethrowing instead of answering
faultResponseMutRethrow ==
    [status |-> "rejected", data |-> EmptyData, results |-> [f \in Fields |-> NoResult],
     metadata |-> [dataSources |-> <<>>, cacheStatus |-> "miss",
                   hasProviderHealth |-> FALSE, providerHealth |-> providerHealth(<<>>)],
     errors |-> <<>>]

\* The catch branch of aggregateTokenData / aggregateWalletData
faultResponse ==
    [status |-> "resolved", data |-> EmptyData, results |-> [f \in Fields |-> NoResult],
     metadata |-> [dataSources |-> <<>>, cacheStatus |-> "miss",
                   hasProviderHealth |-> FALSE, providerHealth |-> providerHealth(<<>>)],
     errors |-> <<[provider |-> "aggregator", error |-> "error", recoverable |-> FALSE]>>]

\* No response yet.
NoResponse ==
    [status |-> "none", data |-> EmptyData, results |-> [f \in Fields |-> NoResult],
     metadata |-> [dataSources |-> <<>>, cacheStatus |-> "miss",
                   hasProviderHealth |-> FALSE, providerHealth |-> providerHealth(<<>>)],
     errors |-> <<>>]

\* The try branch: aggregate, build data and metadata, extract the errors
buildResponse(fields, allExecutions, conflictResolution) ==
    LET aggregationResults == aggregateFieldResults(fields, allExecutions, conflictResolution)
    IN  [status |-> "resolved",
         data |-> buildData(fields, aggregationResults),
         results |-> aggregationResults,
         metadata |-> buildResponseMetadata(allExecutions),
         errors |-> extractErrors(allExecutions)]

\* return [...executions, ...fallbackExecutions] without the fallback executions
collectExecutionsMutNoFallback(execs, fallbacks) ==
    execs

\* return [...executions, ...fallbackExecutions]
collectExecutions(execs, fallbacks) ==
    execs \o fallbacks

\* Date.now() - startTime of a provider call that answered
ResponseTime == 10

ConflictResolutions == {"priority", "newest", "majority", "manual"}

\* The requests: every list of fields, and one whose fields are not iterable.
Requests ==
    [fields : {<<>>, <<"f1">>, <<"f2">>, <<"f1", "f2">>, <<"f2", "f1">>}, malformed : {FALSE}]
        \cup {[fields |-> <<>>, malformed |-> TRUE]}

NoRequest == [kind |-> "token", fields |-> <<>>, malformed |-> FALSE]

\* Promise.all never resolving
SettledMutNever(execs) == FALSE

\* The parallel calls have all settled (Promise.all).
Settled(execs) == \A i \in 1..Len(execs) : ~execs[i].pending

\* aggregateTokenData / aggregateWalletData up to the first await: routing plan,
\* provider requests, the provider calls started.  A request whose fields are
\* not iterable makes the router throw, which the catch branch answers.
Begin(kind, fields, malformed) ==
    /\ AggFrame
    /\ pc = "idle"
    /\ req' = [kind |-> kind, fields |-> fields, malformed |-> malformed]
    /\ IF malformed
       THEN /\ response' = faultResponse
            /\ pc' = "done"
            /\ UNCHANGED <<routingPlan, planOrder, providerRequests, executions, cursor>>
       ELSE LET plan == planRouting(fields)
                order == SelectSeq(fields, LAMBDA f : plan[f].exists)
                reqs == buildProviderRequests(kind, plan, order)
                execs == [i \in 1..Len(reqs) |->
                            IF Registered(reqs[i].provider)
                            THEN [provider |-> reqs[i].provider, success |-> FALSE,
                                  data |-> NoData, error |-> "pending",
                                  fieldsProvided |-> <<>>, pending |-> TRUE]
                            ELSE Execution(reqs[i].provider, FALSE, NoData,
                                           "not_found", <<>>)]
            IN  /\ routingPlan' = plan
                /\ planOrder' = order
                /\ providerRequests' = reqs
                /\ executions' = execs
                /\ pc' = IF Settled(execs) THEN "fallback" ELSE "parallel"
                /\ cursor' = IF Settled(execs)
                             THEN nextFallbackCall(plan, order, execs, 1, 1)
                             ELSE CursorDone
                /\ UNCHANGED response
    /\ UNCHANGED <<registrationOrder, routed, calls, providers, fieldPriorities, metrics,
                   strategy, fallbackExecutions, fallbackLog>>

\* One of the parallel provider calls settles.
ParallelRespond(p, outcome) ==
    /\ AggFrame
    /\ pc = "parallel"
    /\ findExecution(executions, p) # 0
    /\ executions[findExecution(executions, p)].pending
    /\ outcome \in CallOutcomes(p)
    /\ LET i == findExecution(executions, p)
           execs == [executions EXCEPT ![i] =
                        IF outcome.kind = "success"
                        THEN Execution(p, TRUE, outcome.data, "none",
                                       providerRequests[i].fields)
                        ELSE Execution(p, FALSE, NoData,
                                       IF outcome.kind \in {"timeout", "late"}
                                       THEN "timeout" ELSE "error", <<>>)]
       IN  /\ executions' = execs
           /\ metrics' = updateMetrics(metrics, p, ResponseTime, outcome.kind = "success")
           /\ calls' = [calls EXCEPT ![p].invoked = @ + 1,
                                     ![p].updates = @ + 1,
                                     ![p].failed = IF outcome.kind = "success"
                                                   THEN @ ELSE @ + 1,
                                     ![p].abandoned = IF outcome.kind = "late"
                                                      THEN @ + 1 ELSE @]
           /\ pc' = IF Settled(execs) THEN "fallback" ELSE "parallel"
           /\ cursor' = IF Settled(execs)
                        THEN nextFallbackCall(routingPlan, planOrder, execs, 1, 1)
                        ELSE CursorDone
    /\ UNCHANGED <<registrationOrder, routed, providers, fieldPriorities, req, strategy,
                   routingPlan, planOrder, providerRequests, fallbackExecutions, fallbackLog,
                   response>>

\* The fallback loop never leaving a field's chain early
afterFallbackMutNoBreak(ok, i, j) ==
    [i |-> i, j |-> j + 1]

\* Where the fallback loop goes on after the call to fallback j of field i:
\* break after a success, otherwise the field's next fallback.
afterFallback(ok, i, j) ==
    IF ok THEN [i |-> i + 1, j |-> 1] ELSE [i |-> i, j |-> j + 1]

\* The fallback loop calls the next fallback provider and the call settles.
FallbackCall(outcome) ==
    /\ AggFrame
    /\ pc = "fallback"
    /\ cursor # CursorDone
    /\ LET field == planOrder[cursor.i]
           fallbackProvider == routingPlan[field].fallbackProviders[cursor.j]
       IN  /\ outcome \in CallOutcomes(fallbackProvider)
           /\ metrics' = IF outcome.kind \in {"success", "failure"}
                         THEN updateMetrics(metrics, fallbackProvider, ResponseTime,
                                            outcome.kind = "success")
                         ELSE metrics
           /\ calls' = [calls EXCEPT
                           ![fallbackProvider].invoked = @ + 1,
                           ![fallbackProvider].updates =
                               IF outcome.kind \in {"success", "failure"} THEN @ + 1 ELSE @,
                           ![fallbackProvider].failed =
                               IF outcome.kind = "failure" THEN @ + 1 ELSE @,
                           ![fallbackProvider].abandoned =
                               IF outcome.kind = "late" THEN @ + 1 ELSE @]
           /\ fallbackExecutions' =
                 IF outcome.kind = "success"
                 THEN Append(fallbackExecutions,
                             Execution(fallbackProvider, TRUE, outcome.data, "none",
                                       <<field>>))
                 ELSE fallbackExecutions
           /\ fallbackLog' = Append(fallbackLog,
                                    [field |-> field, index |-> cursor.j,
                                     provider |-> fallbackProvider,
                                     ok |-> outcome.kind = "success"])
           /\ cursor' = LET from == afterFallback(outcome.kind = "success",
                                                  cursor.i, cursor.j)
                        IN  nextFallbackCall(routingPlan, planOrder, executions,
                                             from.i, from.j)
    /\ UNCHANGED <<registrationOrder, routed, providers, fieldPriorities, pc, req, strategy,
                   routingPlan, planOrder, providerRequests, executions, response>>

\* The executions are aggregated under the request's strategy and the
\* response is returned.
Finish(conflictResolution) ==
    /\ AggFrame
    /\ pc = "fallback"
    /\ cursor = CursorDone
    /\ strategy' = conflictResolution
    /\ response' = buildResponse(req.fields,
                      collectExecutions(executions, fallbackExecutions)
                          \o missingProviderExecutions(req.kind, req.fields, routingPlan),
                      conflictResolution)
    /\ pc' = "done"
    /\ UNCHANGED <<registrationOrder, routed, calls, providers, fieldPriorities, metrics, req,
                   routingPlan, planOrder, providerRequests, executions, cursor,
                   fallbackExecutions, fallbackLog>>

\* The response of a call that lost the race against its timeout arrives.
\* Nothing but the settled race was waiting for responsePromise, so no code
\* runs.
LateResponse(p) ==
    /\ AggFrame
    /\ calls[p].abandoned > 0
    /\ calls' = [calls EXCEPT ![p].abandoned = @ - 1, ![p].arrived = @ + 1]
    /\ UNCHANGED <<registrationOrder, routed, providers, fieldPriorities, metrics, pc, req,
                   strategy, routingPlan, planOrder, providerRequests, executions, cursor,
                   fallbackExecutions, fallbackLog, response>>

AggNext ==
    \/ \E kind \in {"token", "wallet"}, r \in Requests :
          Begin(kind, r.fields, r.malformed)
    \/ \E p \in Providers, outcome \in Outcomes : ParallelRespond(p, outcome)
    \/ \E outcome \in Outcomes : FallbackCall(outcome)
    \/ \E conflictResolution \in ConflictResolutions : Finish(conflictResolution)

\* The aggregator with provider calls that answer after their timeout.
LateNext ==
    \/ \E kind \in {"token", "wallet"}, r \in Requests :
          Begin(kind, r.fields, r.malformed)
    \/ \E p \in Providers, outcome \in LateOutcomes : ParallelRespond(p, outcome)
    \/ \E outcome \in LateOutcomes : FallbackCall(outcome)
    \/ \E conflictResolution \in ConflictResolutions : Finish(conflictResolution)
    \/ \E p \in Providers : LateResponse(p)

(***************************************************************************)
(* RetryExecutor                                                           *)
(***************************************************************************)
\* Bound of the retry model: the largest configured maxAttempts.
MaxAttempts == 3

\* The errors fn() may reject with: CardalabsError instances by category, and
\* plain Errors whose message does or does not match one of the retryable
\* patterns.
ErrorKinds ==
    {"network", "authentication", "validation", "provider", "configuration",
     "rate_limit", "timeout", "plain_network", "plain_other"}

\* ERROR_METADATA[error.code].retryable
ERROR_METADATA(error) ==
    CASE error = "network" -> TRUE
      [] error = "authentication" -> FALSE
      [] error = "validation" -> FALSE
      [] error = "provider" -> TRUE
      [] error = "cache" -> TRUE
      [] error = "aggregation" -> TRUE
      [] error = "configuration" -> FALSE
      [] error = "rate_limit" -> TRUE
      [] error = "timeout" -> TRUE
      [] OTHER -> FALSE

\* isRetryableError answering true for every error
isRetryableErrorMutAlways(error) ==
    TRUE

\* isRetryableError(error); 'category' in error holds of every error but the
\* plain ones.
isRetryableError(error) ==
    IF error \notin {"plain_network", "plain_other"} THEN ERROR_METADATA(error)
    ELSE error = "plain_network"

\* Math.pow(b, e) for a natural exponent
RECURSIVE Pow(_, _)
Pow(b, e) == IF e = 0 THEN 1 ELSE b * Pow(b, e - 1)

\* Math.round(num / den), den > 0: the nearest integer, halves rounded up
Round(num, den) == (2 * num + den) \div (2 * den)

\* calculateDelay(attempt, config); draw is Math.random() * 2 - 1 in hundredths.
\* The jitter is 10% of the capped delay times the draw.
calculateDelay(cfg, n, draw) ==
    LET exponential == cfg.baseDelay * Pow(cfg.backoffMultiplier, n - 1)
        capped == IF exponential <= cfg.maxDelay THEN exponential ELSE cfg.maxDelay
    IN  IF cfg.jitter
        THEN Max(0, Round(capped * 1000 + capped * draw, 1000))
        ELSE Max(0, Round(capped, 1))

\* attempt === config.maxAttempts, never true
isLastAttemptMutNever(cfg, n) ==
    FALSE

\* attempt === config.maxAttempts
isLastAttempt(cfg, n) ==
    n = cfg.maxAttempts

\* The shouldRetry test without the predicate
shouldRetryVetoesMutIgnored(cfg, verdict) ==
    FALSE

\* config.shouldRetry && !config.shouldRetry(attemptError, attempt)
shouldRetryVetoes(cfg, verdict) ==
    cfg.hasShouldRetry /\ ~verdict

\* this.attempts = [] left out
resetAttemptsMutKeep ==
    attempts

\* this.attempts = []
resetAttempts ==
    <<>>

NoSettle == [kind |-> "pending", error |-> "none"]

\* execute(fn): attempts cleared, the loop entered, fn() invoked for attempt 1.
\* With maxAttempts < 1 the loop body never runs and execute throws its
\* 'failed unexpectedly' error.
RetryExecute ==
    /\ RetryFrame
    /\ rPc \in {"idle", "resolved", "rejected"}
    /\ attempts' = resetAttempts
    /\ attempt' = 1
    /\ invocations' = <<>>
    /\ slept' = <<>>
    /\ IF 1 <= retryConfig.maxAttempts
       THEN rPc' = "calling" /\ settled' = NoSettle
       ELSE rPc' = "rejected" /\ settled' = [kind |-> "rejected", error |-> "unexpected"]
    /\ UNCHANGED <<retryConfig, secondCall>>

\* await fn() resolved: the attempt is recorded and the result returned.
RetryFnResolves ==
    /\ RetryFrame
    /\ rPc = "calling"
    /\ attempts' = Append(attempts, [attempt |-> attempt, delay |-> 0, error |-> "none"])
    /\ invocations' = Append(invocations, [outcome |-> "ok", asked |-> FALSE, verdict |-> FALSE])
    /\ rPc' = "resolved"
    /\ settled' = [kind |-> "resolved", error |-> "none"]
    /\ UNCHANGED <<retryConfig, attempt, slept, secondCall>>

\* await fn() rejected with error: the attempt is recorded; then the last
\* attempt, a vetoing shouldRetry or a non-retryable error rethrows, otherwise
\* the delay is computed and the sleep started.  recordDraw and sleepDraw are
\* the Math.random() outcomes of the two calculateDelay calls, verdict what the
\* shouldRetry predicate answers.
RetryFnRejects(error, recordDraw, sleepDraw, verdict) ==
    /\ RetryFrame
    /\ rPc = "calling"
    /\ LET last == isLastAttempt(retryConfig, attempt)
           asked == ~last /\ retryConfig.hasShouldRetry
           vetoed == ~last /\ shouldRetryVetoes(retryConfig, verdict)
           giveUp == last \/ vetoed \/ ~isRetryableError(error)
       IN  /\ attempts' = Append(attempts,
                  [attempt |-> attempt,
                   delay |-> IF attempt < retryConfig.maxAttempts
                             THEN calculateDelay(retryConfig, attempt, recordDraw)
                             ELSE 0,
                   error |-> error])
           /\ invocations' = Append(invocations,
                  [outcome |-> error, asked |-> asked, verdict |-> asked /\ verdict])
           /\ IF giveUp
              THEN /\ rPc' = "rejected"
                   /\ settled' = [kind |-> "rejected", error |-> error]
                   /\ slept' = slept
              ELSE /\ rPc' = "sleeping"
                   /\ settled' = settled
                   /\ slept' = Append(slept, calculateDelay(retryConfig, attempt, sleepDraw))
    /\ UNCHANGED <<retryConfig, attempt, secondCall>>

\* The sleep is over: attempt++ and fn() is invoked again.
RetryWake ==
    /\ RetryFrame
    /\ rPc = "sleeping"
    /\ attempt' = attempt + 1
    /\ rPc' = IF attempt + 1 <= retryConfig.maxAttempts THEN "calling" ELSE "rejected"
    /\ settled' = IF attempt + 1 <= retryConfig.maxAttempts THEN settled
                  ELSE [kind |-> "rejected", error |-> "unexpected"]
    /\ UNCHANGED <<retryConfig, attempts, invocations, slept, secondCall>>

\* A second execute(fn) on the same executor while the first call is in
\* flight, as a function wrapped by withRetry called again before its first
\* call has settled: the same loop with its own attempt counter and the
\* executor's one attempts array.  It starts (attempts cleared), its fn()
\* settles with outcome (the attempt is recorded; it returns, rethrows or
\* sleeps), or its sleep is over.
SecondCall(outcome, draw, verdict) ==
    /\ RetryFrame
    /\ \/ /\ secondCall.pc = "idle"
          /\ rPc \in {"calling", "sleeping"}
          /\ attempts' = resetAttempts
          /\ secondCall' = [pc |-> "calling", attempt |-> 1]
       \/ /\ secondCall.pc = "calling"
          /\ outcome = "ok"
          /\ attempts' = Append(attempts, [attempt |-> secondCall.attempt, delay |-> 0,
                                          error |-> "none"])
          /\ secondCall' = [secondCall EXCEPT !.pc = "resolved"]
       \/ /\ secondCall.pc = "calling"
          /\ outcome # "ok"
          /\ attempts' = Append(attempts,
                 [attempt |-> secondCall.attempt,
                  delay |-> IF secondCall.attempt < retryConfig.maxAttempts
                            THEN calculateDelay(retryConfig, secondCall.attempt, draw)
                            ELSE 0,
                  error |-> outcome])
          /\ secondCall' =
                 [secondCall EXCEPT !.pc =
                     IF \/ isLastAttempt(retryConfig, secondCall.attempt)
                        \/ shouldRetryVetoes(retryConfig, verdict)
                        \/ ~isRetryableError(outcome)
                     THEN "rejected" ELSE "sleeping"]
       \/ /\ secondCall.pc = "sleeping"
          /\ attempts' = attempts
          /\ secondCall' = [pc |-> "calling", attempt |-> secondCall.attempt + 1]
    /\ UNCHANGED <<retryConfig, rPc, attempt, invocations, slept, settled>>

RetryNext ==
    \/ RetryExecute
    \/ RetryFnResolves
    \/ \E error \in ErrorKinds, recordDraw \in {-100, 99}, sleepDraw \in {-100, 99},
          verdict \in BOOLEAN : RetryFnRejects(error, recordDraw, sleepDraw, verdict)
    \/ RetryWake

\* Two overlapping calls on one executor.
OverlapNext ==
    \/ RetryExecute
    \/ RetryFnResolves
    \/ \E error \in {"network", "validation"}, verdict \in BOOLEAN :
          RetryFnRejects(error, 99, 99, verdict)
    \/ RetryWake
    \/ \E outcome \in {"ok", "network", "validation"}, verdict \in BOOLEAN :
          SecondCall(outcome, 99, verdict)

(***************************************************************************)
(* DefaultCacheKeyBuilder                                                  *)
(* A string is modelled as the sequence of its pieces.                     *)
(***************************************************************************)
\* The longest fields / providers array handed to the builder.
MaxFields == 3

\* Field names, in the order of the default Array.prototype.sort (UTF-16 code
\* units: upper case before lower case).
CodeUnitOrder == <<"TVL", "marketCap", "price">>

FieldArrays == UNION {[1..n -> Range(CodeUnitOrder)] : n \in 0..MaxFields}

\* The providers arrays.
ProviderArrays == UNION {[1..n -> {"blockfrost", "coingecko"}] : n \in 0..2}

\* Array.prototype.sort() with the default comparison (a < b as strings):
\* x put in its place in a sorted array
RECURSIVE insertInOrder(_, _)
insertInOrder(sorted, x) ==
    LET order == CodeUnitOrder \o <<"blockfrost", "coingecko">>
        rank(y) == CHOOSE i \in 1..Len(order) : order[i] = y
    IN  IF sorted = <<>> THEN <<x>>
        ELSE IF rank(x) < rank(Head(sorted)) THEN <<x>> \o sorted
        ELSE <<Head(sorted)>> \o insertInOrder(Tail(sorted), x)

\* [...fields] without the sort
sortedCopyMutUnsorted(fields) == fields

\* [...fields].sort(): a sorted copy, the argument is left as it is
RECURSIVE sortedCopy(_)
sortedCopy(fields) ==
    IF fields = <<>> THEN <<>>
    ELSE insertInOrder(sortedCopy(SubSeq(fields, 1, Len(fields) - 1)), fields[Len(fields)])

\* Array.prototype.join(separator) of strings
RECURSIVE join(_, _)
join(parts, separator) ==
    IF parts = <<>> THEN <<>>
    ELSE IF Len(parts) = 1 THEN parts[1]
    ELSE parts[1] \o <<separator>> \o join(Tail(parts), separator)

\* sanitizeIdentifier(identifier): characters outside [a-zA-Z0-9_-] become '_',
\* then lower case
sanitizeIdentifier(identifier) ==
    CASE identifier = "Addr1.X" -> <<"addr1_x">>
      [] identifier = "CoinGecko" -> <<"coingecko">>
      [] OTHER -> <<identifier>>

\* hashFields(fields): the first 8 hex digits of the md5 of fields.join(','),
\* a function of the joined string
hashFields(fields) ==
    <<"md5(">> \o join([i \in 1..Len(fields) |-> <<fields[i]>>], ",") \o <<")">>

\* buildTokenDataKey(assetUnit, fields, provider)
buildTokenDataKey(assetUnit, fields, provider) ==
    join(<<<<"v1">>, <<"token">>, sanitizeIdentifier(assetUnit)>>
            \o (IF provider # ""
                THEN <<<<"provider">>, sanitizeIdentifier(provider)>> ELSE <<>>)
            \o (IF Len(fields) > 0
                THEN <<<<"fields">>, hashFields(sortedCopy(fields))>> ELSE <<>>), ":")

\* buildWalletDataKey(address, fields, provider)
buildWalletDataKey(address, fields, provider) ==
    join(<<<<"v1">>, <<"wallet">>, sanitizeIdentifier(address)>>
            \o (IF provider # ""
                THEN <<<<"provider">>, sanitizeIdentifier(provider)>> ELSE <<>>)
            \o (IF Len(fields) > 0
                THEN <<<<"fields">>, hashFields(sortedCopy(fields))>> ELSE <<>>), ":")

\* buildAggregatedKey(type, identifier, fields, providerList)
buildAggregatedKey(type, identifier, fields, providerList) ==
    join(<<<<"v1">>, <<"aggregated">>, <<type>>, sanitizeIdentifier(identifier)>>
            \o (IF Len(providerList) > 0
                THEN <<<<"providers">>, hashFields(sortedCopy(providerList))>> ELSE <<>>)
            \o (IF Len(fields) > 0
                THEN <<<<"fields">>, hashFields(sortedCopy(fields))>> ELSE <<>>), ":")

\* No builder call.
NoKeyCall ==
    [op |-> "none", called |-> FALSE, type |-> "", identifier |-> "", fields |-> <<>>,
     providers |-> <<>>, provider |-> "", fieldsAfter |-> <<>>, providersAfter |-> <<>>,
     key |-> <<>>]

\* The builder calls about to be made, with their arguments.
KeyCalls ==
    [op : {"buildTokenDataKey", "buildWalletDataKey"}, called : {FALSE}, type : {""},
     identifier : {"lovelace", "Addr1.X"}, fields : FieldArrays, providers : {<<>>},
     provider : {"", "CoinGecko"}, fieldsAfter : {<<>>}, providersAfter : {<<>>}, key : {<<>>}]
    \cup
    [op : {"buildAggregatedKey"}, called : {FALSE}, type : {"token", "wallet"},
     identifier : {"lovelace", "Addr1.X"}, fields : FieldArrays, providers : ProviderArrays,
     provider : {""}, fieldsAfter : {<<>>}, providersAfter : {<<>>}, key : {<<>>}]

\* The call is made; the caller's arrays are what they were, the sort having
\* worked on copies.
BuildTokenDataKey ==
    /\ UNCHANGED <<cbVars, cacheVars, aggVars, retryVars>>
    /\ ~keyCall.called
    /\ keyCall.op = "buildTokenDataKey"
    /\ keyCall' = [keyCall EXCEPT
                      !.called = TRUE,
                      !.fieldsAfter = keyCall.fields,
                      !.key = buildTokenDataKey(keyCall.identifier, keyCall.fields,
                                                keyCall.provider)]

BuildWalletDataKey ==
    /\ UNCHANGED <<cbVars, cacheVars, aggVars, retryVars>>
    /\ ~keyCall.called
    /\ keyCall.op = "buildWalletDataKey"
    /\ keyCall' = [keyCall EXCEPT
                      !.called = TRUE,
                      !.fieldsAfter = keyCall.fields,
                      !.key = buildWalletDataKey(keyCall.identifier, keyCall.fields,
                                                 keyCall.provider)]

BuildAggregatedKey ==
    /\ UNCHANGED <<cbVars, cacheVars, aggVars, retryVars>>
    /\ ~keyCall.called
    /\ keyCall.op = "buildAggregatedKey"
    /\ keyCall' = [keyCall EXCEPT
                      !.called = TRUE,
                      !.fieldsAfter = keyCall.fields,
                      !.providersAfter = keyCall.providers,
                      !.key = buildAggregatedKey(keyCall.type, keyCall.identifier,
                                                 keyCall.fields, keyCall.providers)]

KeyNext ==
    \/ BuildTokenDataKey
    \/ BuildWalletDataKey
    \/ BuildAggregatedKey

(***************************************************************************)
(* Specifications                                                          *)
(***************************************************************************)
vars == <<cbVars, cacheVars, aggVars, retryVars, keyCall>>

\* new CircuitBreaker(config), with an untouched default cache beside it.
BreakerInit ==
    /\ config \in [failureThreshold : 1..MaxThreshold,
                   recoveryTime : {1, 2},
                   successThreshold : 1..MaxThreshold]
    /\ state = "closed"
    /\ failures = 0
    /\ lastFailureTime = NoTime
    /\ cbNow = 0
    /\ inFlight = 0
    /\ consecutive = 0
    /\ cbLast = "none"
    /\ inFlightHalfOpen = 0
    /\ cbAdmittedIn = "none"
    /\ halfOpenSuccesses = 0
    /\ options = [maxSize |-> 1, defaultTtl |-> DefaultTtl]
    /\ cache = [k \in Keys |-> NoEntry]
    /\ head = NULL
    /\ tail = NULL
    /\ prev = [k \in Keys |-> NULL]
    /\ next = [k \in Keys |-> NULL]
    /\ statsSize = 0
    /\ now = 0
    /\ recency = <<>>
    /\ cLast = [op |-> "none", key |-> "", ret |-> NULL, events |-> <<>>]
    /\ providers = [p \in Providers |-> Unregistered]
    /\ fieldPriorities = [f \in Fields |-> <<>>]
    /\ metrics = [p \in Providers |-> NoMetrics]
    /\ registrationOrder = <<>>
    /\ routed = NoRouted
    /\ calls = [p \in Providers |-> NoCalls]
    /\ pc = "idle"
    /\ req = NoRequest
    /\ strategy = "priority"
    /\ routingPlan = [f \in Fields |-> NoPlan]
    /\ planOrder = <<>>
    /\ providerRequests = <<>>
    /\ executions = <<>>
    /\ cursor = CursorDone
    /\ fallbackExecutions = <<>>
    /\ fallbackLog = <<>>
    /\ response = NoResponse
    /\ retryConfig = [maxAttempts |-> 1, baseDelay |-> 100, maxDelay |-> 100,
                      backoffMultiplier |-> 2, jitter |-> FALSE, hasShouldRetry |-> FALSE]
    /\ rPc = "idle"
    /\ attempt = 1
    /\ attempts = <<>>
    /\ invocations = <<>>
    /\ slept = <<>>
    /\ settled = NoSettle
    /\ secondCall = [pc |-> "idle", attempt |-> 1]
    /\ keyCall = NoKeyCall

BreakerSpec == BreakerInit /\ [][CBNext]_vars

\* The breaker in use: calls keep being made, every call in flight settles,
\* and time passes.
BreakerLive ==
    /\ BreakerInit
    /\ [][CBNext]_vars
    /\ WF_vars(CBAdmit)
    /\ WF_vars(\E admittedIn \in {"closed", "half-open"} : CBSucceed(admittedIn))
    /\ WF_vars(CBTick)

\* new MemoryCache(options), with an untouched default breaker beside it.
CacheInit ==
    /\ options \in [maxSize : 0..MaxCapacity, defaultTtl : {DefaultTtl}]
    /\ cache = [k \in Keys |-> NoEntry]
    /\ head = NULL
    /\ tail = NULL
    /\ prev = [k \in Keys |-> NULL]
    /\ next = [k \in Keys |-> NULL]
    /\ statsSize = 0
    /\ now = 0
    /\ recency = <<>>
    /\ cLast = [op |-> "none", key |-> "", ret |-> NULL, events |-> <<>>]
    /\ config = [failureThreshold |-> 1, recoveryTime |-> 1, successThreshold |-> 1]
    /\ state = "closed"
    /\ failures = 0
    /\ lastFailureTime = NoTime
    /\ cbNow = 0
    /\ inFlight = 0
    /\ consecutive = 0
    /\ cbLast = "none"
    /\ inFlightHalfOpen = 0
    /\ cbAdmittedIn = "none"
    /\ halfOpenSuccesses = 0
    /\ providers = [p \in Providers |-> Unregistered]
    /\ fieldPriorities = [f \in Fields |-> <<>>]
    /\ metrics = [p \in Providers |-> NoMetrics]
    /\ registrationOrder = <<>>
    /\ routed = NoRouted
    /\ calls = [p \in Providers |-> NoCalls]
    /\ pc = "idle"
    /\ req = NoRequest
    /\ strategy = "priority"
    /\ routingPlan = [f \in Fields |-> NoPlan]
    /\ planOrder = <<>>
    /\ providerRequests = <<>>
    /\ executions = <<>>
    /\ cursor = CursorDone
    /\ fallbackExecutions = <<>>
    /\ fallbackLog = <<>>
    /\ response = NoResponse
    /\ retryConfig = [maxAttempts |-> 1, baseDelay |-> 100, maxDelay |-> 100,
                      backoffMultiplier |-> 2, jitter |-> FALSE, hasShouldRetry |-> FALSE]
    /\ rPc = "idle"
    /\ attempt = 1
    /\ attempts = <<>>
    /\ invocations = <<>>
    /\ slept = <<>>
    /\ settled = NoSettle
    /\ secondCall = [pc |-> "idle", attempt |-> 1]
    /\ keyCall = NoKeyCall

CacheSpec == CacheInit /\ [][CacheNext]_vars

\* new DataAggregator(providers, fieldPriorities): the providers in registration
\* order A, B, C, the priority lists of the configuration, and the metrics of a
\* router that is new or has served B twice; breaker and cache untouched.
AggInit ==
    /\ providers \in [A : {[registered |-> TRUE, caps |-> {"f1"}]},
                     B : {[registered |-> TRUE, caps |-> {"f1"}],
                          [registered |-> TRUE, caps |-> {"f1", "f2"}]},
                     C : {Unregistered, [registered |-> TRUE, caps |-> {"f1"}]}]
    /\ fieldPriorities \in [f1 : {<<>>, <<"A", "B">>, <<"B", "A">>},
                           f2 : {<<>>, <<"C", "A">>, <<"A", "C">>}]
    /\ metrics \in [A : {FreshMetrics},
                   B : {FreshMetrics,
                        [present |-> TRUE, totalRequests |-> 2, failedRequests |-> 1,
                         avgNum |-> 1000, avgDen |-> 1, successRate |-> <<1, 2>>]},
                   C : {IF providers["C"].registered THEN FreshMetrics ELSE NoMetrics}]
    /\ registrationOrder = SelectSeq(<<"A", "B", "C">>, LAMBDA p : providers[p].registered)
    /\ routed = NoRouted
    /\ calls = [p \in Providers |->
                  [updates |-> metrics[p].totalRequests,
                   failed |-> metrics[p].failedRequests,
                   invoked |-> metrics[p].totalRequests,
                   abandoned |-> 0,
                   arrived |-> 0]]
    /\ pc = "idle"
    /\ req = NoRequest
    /\ strategy = "priority"
    /\ routingPlan = [f \in Fields |-> NoPlan]
    /\ planOrder = <<>>
    /\ providerRequests = <<>>
    /\ executions = <<>>
    /\ cursor = CursorDone
    /\ fallbackExecutions = <<>>
    /\ fallbackLog = <<>>
    /\ response = NoResponse
    /\ options = [maxSize |-> 1, defaultTtl |-> DefaultTtl]
    /\ cache = [k \in Keys |-> NoEntry]
    /\ head = NULL
    /\ tail = NULL
    /\ prev = [k \in Keys |-> NULL]
    /\ next = [k \in Keys |-> NULL]
    /\ statsSize = 0
    /\ now = 0
    /\ recency = <<>>
    /\ cLast = [op |-> "none", key |-> "", ret |-> NULL, events |-> <<>>]
    /\ config = [failureThreshold |-> 1, recoveryTime |-> 1, successThreshold |-> 1]
    /\ state = "closed"
    /\ failures = 0
    /\ lastFailureTime = NoTime
    /\ cbNow = 0
    /\ inFlight = 0
    /\ consecutive = 0
    /\ cbLast = "none"
    /\ inFlightHalfOpen = 0
    /\ cbAdmittedIn = "none"
    /\ halfOpenSuccesses = 0
    /\ retryConfig = [maxAttempts |-> 1, baseDelay |-> 100, maxDelay |-> 100,
                      backoffMultiplier |-> 2, jitter |-> FALSE, hasShouldRetry |-> FALSE]
    /\ rPc = "idle"
    /\ attempt = 1
    /\ attempts = <<>>
    /\ invocations = <<>>
    /\ slept = <<>>
    /\ settled = NoSettle
    /\ secondCall = [pc |-> "idle", attempt |-> 1]
    /\ keyCall = NoKeyCall

AggSpec == AggInit /\ [][AggNext]_vars

\* As AggInit for two sets of providers: A and B registered, B declaring both
\* fields and A one or both of them, C known to the priority list of f2 only.
LateInit ==
    /\ providers \in [A : {[registered |-> TRUE, caps |-> {"f1"}],
                          [registered |-> TRUE, caps |-> {"f1", "f2"}]},
                     B : {[registered |-> TRUE, caps |-> {"f1", "f2"}]},
                     C : {Unregistered}]
    /\ fieldPriorities \in [f1 : {<<"A", "B">>}, f2 : {<<>>, <<"C", "A">>}]
    /\ metrics = [A |-> FreshMetrics, B |-> FreshMetrics, C |-> NoMetrics]
    /\ registrationOrder = SelectSeq(<<"A", "B", "C">>, LAMBDA p : providers[p].registered)
    /\ routed = NoRouted
    /\ calls = [p \in Providers |->
                  [updates |-> metrics[p].totalRequests,
                   failed |-> metrics[p].failedRequests,
                   invoked |-> metrics[p].totalRequests,
                   abandoned |-> 0,
                   arrived |-> 0]]
    /\ pc = "idle"
    /\ req = NoRequest
    /\ strategy = "priority"
    /\ routingPlan = [f \in Fields |-> NoPlan]
    /\ planOrder = <<>>
    /\ providerRequests = <<>>
    /\ executions = <<>>
    /\ cursor = CursorDone
    /\ fallbackExecutions = <<>>
    /\ fallbackLog = <<>>
    /\ response = NoResponse
    /\ options = [maxSize |-> 1, defaultTtl |-> DefaultTtl]
    /\ cache = [k \in Keys |-> NoEntry]
    /\ head = NULL
    /\ tail = NULL
    /\ prev = [k \in Keys |-> NULL]
    /\ next = [k \in Keys |-> NULL]
    /\ statsSize = 0
    /\ now = 0
    /\ recency = <<>>
    /\ cLast = [op |-> "none", key |-> "", ret |-> NULL, events |-> <<>>]
    /\ config = [failureThreshold |-> 1, recoveryTime |-> 1, successThreshold |-> 1]
    /\ state = "closed"
    /\ failures = 0
    /\ lastFailureTime = NoTime
    /\ cbNow = 0
    /\ inFlight = 0
    /\ consecutive = 0
    /\ cbLast = "none"
    /\ inFlightHalfOpen = 0
    /\ cbAdmittedIn = "none"
    /\ halfOpenSuccesses = 0
    /\ retryConfig = [maxAttempts |-> 1, baseDelay |-> 100, maxDelay |-> 100,
                      backoffMultiplier |-> 2, jitter |-> FALSE, hasShouldRetry |-> FALSE]
    /\ rPc = "idle"
    /\ attempt = 1
    /\ attempts = <<>>
    /\ invocations = <<>>
    /\ slept = <<>>
    /\ settled = NoSettle
    /\ secondCall = [pc |-> "idle", attempt |-> 1]
    /\ keyCall = NoKeyCall

LateSpec == LateInit /\ [][LateNext]_vars

\* The aggregator as far as returning goes: a provider call answers (with or
\* without success), throws, runs into its timeout for good, or runs into it
\* and answers later; what the answers hold is left out.
ReturnNext ==
    \/ \E kind \in {"token", "wallet"}, r \in Requests :
          Begin(kind, r.fields, r.malformed)
    \/ \E p \in Providers,
          outcome \in [kind : {"success", "failure", "throw", "timeout", "late"},
                       data : {NoData}] : ParallelRespond(p, outcome)
    \/ \E outcome \in [kind : {"success", "failure", "throw", "timeout", "late"},
                        data : {NoData}] : FallbackCall(outcome)
    \/ \E conflictResolution \in {"priority", "majority"} : Finish(conflictResolution)
    \/ \E p \in Providers : LateResponse(p)

\* Timers fire: every provider call in flight settles, by its answer or by its
\* timeout, and the code after an await runs.
ReturnLive ==
    /\ LateInit
    /\ [][ReturnNext]_vars
    /\ WF_vars(\E p \in Providers,
                  outcome \in [kind : {"success", "failure", "throw", "timeout", "late"},
                               data : {NoData}] : ParallelRespond(p, outcome))
    /\ WF_vars(\E outcome \in [kind : {"success", "failure", "throw", "timeout", "late"},
                                data : {NoData}] : FallbackCall(outcome))
    /\ WF_vars(\E conflictResolution \in {"priority", "majority"} :
                  Finish(conflictResolution))

\* new RetryExecutor(config): every maxAttempts up to the bound, a delay
\* schedule 100, 200, 400, ... capped at maxDelay, with and without jitter and
\* shouldRetry predicate; breaker, cache and aggregator untouched.
RetryInit ==
    /\ retryConfig \in [maxAttempts : 0..MaxAttempts, baseDelay : {100},
                        maxDelay : {100, 150}, backoffMultiplier : {2},
                        jitter : BOOLEAN, hasShouldRetry : BOOLEAN]
    /\ rPc = "idle"
    /\ attempt = 1
    /\ attempts = <<>>
    /\ invocations = <<>>
    /\ slept = <<>>
    /\ settled = NoSettle
    /\ secondCall = [pc |-> "idle", attempt |-> 1]
    /\ keyCall = NoKeyCall
    /\ options = [maxSize |-> 1, defaultTtl |-> DefaultTtl]
    /\ cache = [k \in Keys |-> NoEntry]
    /\ head = NULL
    /\ tail = NULL
    /\ prev = [k \in Keys |-> NULL]
    /\ next = [k \in Keys |-> NULL]
    /\ statsSize = 0
    /\ now = 0
    /\ recency = <<>>
    /\ cLast = [op |-> "none", key |-> "", ret |-> NULL, events |-> <<>>]
    /\ config = [failureThreshold |-> 1, recoveryTime |-> 1, successThreshold |-> 1]
    /\ state = "closed"
    /\ failures = 0
    /\ lastFailureTime = NoTime
    /\ cbNow = 0
    /\ inFlight = 0
    /\ consecutive = 0
    /\ cbLast = "none"
    /\ inFlightHalfOpen = 0
    /\ cbAdmittedIn = "none"
    /\ halfOpenSuccesses = 0
    /\ providers = [p \in Providers |-> Unregistered]
    /\ fieldPriorities = [f \in Fields |-> <<>>]
    /\ metrics = [p \in Providers |-> NoMetrics]
    /\ registrationOrder = <<>>
    /\ routed = NoRouted
    /\ calls = [p \in Providers |-> NoCalls]
    /\ pc = "idle"
    /\ req = NoRequest
    /\ strategy = "priority"
    /\ routingPlan = [f \in Fields |-> NoPlan]
    /\ planOrder = <<>>
    /\ providerRequests = <<>>
    /\ executions = <<>>
    /\ cursor = CursorDone
    /\ fallbackExecutions = <<>>
    /\ fallbackLog = <<>>
    /\ response = NoResponse

RetrySpec == RetryInit /\ [][RetryNext]_vars

\* new RetryExecutor(config) shared by two calls: configurations without
\* jitter.
OverlapInit ==
    /\ retryConfig \in [maxAttempts : 1..MaxAttempts, baseDelay : {100},
                        maxDelay : {150}, backoffMultiplier : {2},
                        jitter : {FALSE}, hasShouldRetry : BOOLEAN]
    /\ rPc = "idle"
    /\ attempt = 1
    /\ attempts = <<>>
    /\ invocations = <<>>
    /\ slept = <<>>
    /\ settled = NoSettle
    /\ secondCall = [pc |-> "idle", attempt |-> 1]
    /\ keyCall = NoKeyCall
    /\ options = [maxSize |-> 1, defaultTtl |-> DefaultTtl]
    /\ cache = [k \in Keys |-> NoEntry]
    /\ head = NULL
    /\ tail = NULL
    /\ prev = [k \in Keys |-> NULL]
    /\ next = [k \in Keys |-> NULL]
    /\ statsSize = 0
    /\ now = 0
    /\ recency = <<>>
    /\ cLast = [op |-> "none", key |-> "", ret |-> NULL, events |-> <<>>]
    /\ config = [failureThreshold |-> 1, recoveryTime |-> 1, successThreshold |-> 1]
    /\ state = "closed"
    /\ failures = 0
    /\ lastFailureTime = NoTime
    /\ cbNow = 0
    /\ inFlight = 0
    /\ consecutive = 0
    /\ cbLast = "none"
    /\ inFlightHalfOpen = 0
    /\ cbAdmittedIn = "none"
    /\ halfOpenSuccesses = 0
    /\ providers = [p \in Providers |-> Unregistered]
    /\ fieldPriorities = [f \in Fields |-> <<>>]
    /\ metrics = [p \in Providers |-> NoMetrics]
    /\ registrationOrder = <<>>
    /\ routed = NoRouted
    /\ calls = [p \in Providers |-> NoCalls]
    /\ pc = "idle"
    /\ req = NoRequest
    /\ strategy = "priority"
    /\ routingPlan = [f \in Fields |-> NoPlan]
    /\ planOrder = <<>>
    /\ providerRequests = <<>>
    /\ executions = <<>>
    /\ cursor = CursorDone
    /\ fallbackExecutions = <<>>
    /\ fallbackLog = <<>>
    /\ response = NoResponse

OverlapSpec == OverlapInit /\ [][OverlapNext]_vars

\* new FieldRouter(): no provider registered, no priority list set; breaker,
\* cache, retry executor and aggregate call untouched.
RouterInit ==
    /\ options = [maxSize |-> 1, defaultTtl |-> DefaultTtl]
    /\ cache = [k \in Keys |-> NoEntry]
    /\ head = NULL
    /\ tail = NULL
    /\ prev = [k \in Keys |-> NULL]
    /\ next = [k \in Keys |-> NULL]
    /\ statsSize = 0
    /\ now = 0
    /\ recency = <<>>
    /\ cLast = [op |-> "none", key |-> "", ret |-> NULL, events |-> <<>>]
    /\ config = [failureThreshold |-> 1, recoveryTime |-> 1, successThreshold |-> 1]
    /\ state = "closed"
    /\ failures = 0
    /\ lastFailureTime = NoTime
    /\ cbNow = 0
    /\ inFlight = 0
    /\ consecutive = 0
    /\ cbLast = "none"
    /\ inFlightHalfOpen = 0
    /\ cbAdmittedIn = "none"
    /\ halfOpenSuccesses = 0
    /\ providers = [p \in Providers |-> Unregistered]
    /\ fieldPriorities = [f \in Fields |-> <<>>]
    /\ metrics = [p \in Providers |-> NoMetrics]
    /\ registrationOrder = <<>>
    /\ routed = NoRouted
    /\ calls = [p \in Providers |-> NoCalls]
    /\ pc = "idle"
    /\ req = NoRequest
    /\ strategy = "priority"
    /\ routingPlan = [f \in Fields |-> NoPlan]
    /\ planOrder = <<>>
    /\ providerRequests = <<>>
    /\ executions = <<>>
    /\ cursor = CursorDone
    /\ fallbackExecutions = <<>>
    /\ fallbackLog = <<>>
    /\ response = NoResponse
    /\ retryConfig = [maxAttempts |-> 1, baseDelay |-> 100, maxDelay |-> 100,
                      backoffMultiplier |-> 2, jitter |-> FALSE, hasShouldRetry |-> FALSE]
    /\ rPc = "idle"
    /\ attempt = 1
    /\ attempts = <<>>
    /\ invocations = <<>>
    /\ slept = <<>>
    /\ settled = NoSettle
    /\ secondCall = [pc |-> "idle", attempt |-> 1]
    /\ keyCall = NoKeyCall

RouterSpec == RouterInit /\ [][RouterNext]_vars

MetricsSpec == RouterInit /\ [][MetricsNext]_vars

\* A router whose providers have each served no request or one: a fast or a
\* slow success, or a failure.  A and B are registered, C may be.
PlanInit ==
    /\ options = [maxSize |-> 1, defaultTtl |-> DefaultTtl]
    /\ cache = [k \in Keys |-> NoEntry]
    /\ head = NULL
    /\ tail = NULL
    /\ prev = [k \in Keys |-> NULL]
    /\ next = [k \in Keys |-> NULL]
    /\ statsSize = 0
    /\ now = 0
    /\ recency = <<>>
    /\ cLast = [op |-> "none", key |-> "", ret |-> NULL, events |-> <<>>]
    /\ config = [failureThreshold |-> 1, recoveryTime |-> 1, successThreshold |-> 1]
    /\ state = "closed"
    /\ failures = 0
    /\ lastFailureTime = NoTime
    /\ cbNow = 0
    /\ inFlight = 0
    /\ consecutive = 0
    /\ cbLast = "none"
    /\ inFlightHalfOpen = 0
    /\ cbAdmittedIn = "none"
    /\ halfOpenSuccesses = 0
    /\ providers \in [A : {[registered |-> TRUE, caps |-> {"f1"}]},
                     B : {[registered |-> TRUE, caps |-> {"f1"}],
                          [registered |-> TRUE, caps |-> {"f1", "f2"}]},
                     C : {Unregistered, [registered |-> TRUE, caps |-> {"f1"}]}]
    /\ fieldPriorities \in [f1 : {<<>>, <<"B", "A">>}, f2 : {<<>>}]
    /\ LET served(ms, p, c) ==
               CASE c = 1 -> updateMetrics(ms, p, 10, TRUE)
                 [] c = 2 -> updateMetrics(ms, p, 2000, TRUE)
                 [] c = 3 -> updateMetrics(ms, p, 10, FALSE)
                 [] OTHER -> ms
           registered == [p \in Providers |->
                            IF providers[p].registered THEN FreshMetrics ELSE NoMetrics]
       IN  metrics \in {served(served(served(registered, "A", a), "B", b), "C", c) :
                           a \in 0..3, b \in 0..3, c \in 0..3}
    /\ registrationOrder = SelectSeq(<<"A", "B", "C">>, LAMBDA p : providers[p].registered)
    /\ routed = NoRouted
    /\ calls = [p \in Providers |->
                  [updates |-> metrics[p].totalRequests,
                   failed |-> metrics[p].failedRequests,
                   invoked |-> metrics[p].totalRequests,
                   abandoned |-> 0,
                   arrived |-> 0]]
    /\ pc = "idle"
    /\ req = NoRequest
    /\ strategy = "priority"
    /\ routingPlan = [f \in Fields |-> NoPlan]
    /\ planOrder = <<>>
    /\ providerRequests = <<>>
    /\ executions = <<>>
    /\ cursor = CursorDone
    /\ fallbackExecutions = <<>>
    /\ fallbackLog = <<>>
    /\ response = NoResponse
    /\ retryConfig = [maxAttempts |-> 1, baseDelay |-> 100, maxDelay |-> 100,
                      backoffMultiplier |-> 2, jitter |-> FALSE, hasShouldRetry |-> FALSE]
    /\ rPc = "idle"
    /\ attempt = 1
    /\ attempts = <<>>
    /\ invocations = <<>>
    /\ slept = <<>>
    /\ settled = NoSettle
    /\ secondCall = [pc |-> "idle", attempt |-> 1]
    /\ keyCall = NoKeyCall

\* The router asked for routing plans only.
PlanNext ==
    \E fields \in {<<>>, <<"f1">>, <<"f2">>, <<"f1", "f2">>, <<"f2", "f1">>} :
        PlanRouting(fields)

PlanSpec == PlanInit /\ [][PlanNext]_vars

\* The key builder is stateless: one call, of any builder with any arguments,
\* beside untouched components.
KeyInit ==
    /\ options = [maxSize |-> 1, defaultTtl |-> DefaultTtl]
    /\ cache = [k \in Keys |-> NoEntry]
    /\ head = NULL
    /\ tail = NULL
    /\ prev = [k \in Keys |-> NULL]
    /\ next = [k \in Keys |-> NULL]
    /\ statsSize = 0
    /\ now = 0
    /\ recency = <<>>
    /\ cLast = [op |-> "none", key |-> "", ret |-> NULL, events |-> <<>>]
    /\ config = [failureThreshold |-> 1, recoveryTime |-> 1, successThreshold |-> 1]
    /\ state = "closed"
    /\ failures = 0
    /\ lastFailureTime = NoTime
    /\ cbNow = 0
    /\ inFlight = 0
    /\ consecutive = 0
    /\ cbLast = "none"
    /\ inFlightHalfOpen = 0
    /\ cbAdmittedIn = "none"
    /\ halfOpenSuccesses = 0
    /\ providers = [p \in Providers |-> Unregistered]
    /\ fieldPriorities = [f \in Fields |-> <<>>]
    /\ metrics = [p \in Providers |-> NoMetrics]
    /\ registrationOrder = <<>>
    /\ routed = NoRouted
    /\ calls = [p \in Providers |-> NoCalls]
    /\ pc = "idle"
    /\ req = NoRequest
    /\ strategy = "priority"
    /\ routingPlan = [f \in Fields |-> NoPlan]
    /\ planOrder = <<>>
    /\ providerRequests = <<>>
    /\ executions = <<>>
    /\ cursor = CursorDone
    /\ fallbackExecutions = <<>>
    /\ fallbackLog = <<>>
    /\ response = NoResponse
    /\ retryConfig = [maxAttempts |-> 1, baseDelay |-> 100, maxDelay |-> 100,
                      backoffMultiplier |-> 2, jitter |-> FALSE, hasShouldRetry |-> FALSE]
    /\ rPc = "idle"
    /\ attempt = 1
    /\ attempts = <<>>
    /\ invocations = <<>>
    /\ slept = <<>>
    /\ settled = NoSettle
    /\ secondCall = [pc |-> "idle", attempt |-> 1]
    /\ keyCall \in KeyCalls

KeySpec == KeyInit /\ [][KeyNext]_vars

(***************************************************************************)
(* Claims about DataAggregator (checked under AggSpec)                     *)
(***************************************************************************)
\* C1: aggregateTokenData and aggregateWalletData never reject.  Whatever the
\* provider outcomes (success, unsuccessful response, exception, timeout,
\* unregistered provider), the call resolves to data, metadata and errors whose
\* entries are recoverable provider errors; a fault inside the aggregation
\* (here: request fields that cannot be iterated) resolves to data = {} and
\* exactly one error, provider 'aggregator', recoverable = false.
NeverRejects ==
    pc = "done" =>
        /\ response.status = "resolved"
        /\ IF req.malformed
           THEN /\ response.data = [fields |-> [f \in Fields |-> UNDEF],
                                    stamped |-> FALSE, dataSource |-> <<>>]
                /\ response.errors =
                      <<[provider |-> "aggregator", error |-> "error", recoverable |-> FALSE]>>
           ELSE /\ response.data.stamped
                /\ response.metadata.hasProviderHealth
                /\ \A i \in 1..Len(response.errors) :
                      /\ response.errors[i].recoverable
                      /\ response.errors[i].provider \in Providers \cup {"unknown"}
                /\ \A i \in 1..Len(executions) :
                      ~executions[i].success =>
                          \E j \in 1..Len(response.errors) :
                              /\ response.errors[j].provider = executions[i].provider
                              /\ response.errors[j].error = executions[i].error

\* C1 witness: a request whose fields cannot be iterated has been answered
\* with the single aggregator error.
FaultAnswered ==
    /\ pc = "done"
    /\ req.malformed
    /\ response.status = "resolved"
    /\ Len(response.errors) = 1
    /\ response.errors[1].provider = "aggregator"
    /\ ~response.errors[1].recoverable

\* C2: under 'priority' conflict resolution, when registered
\* providers P and Q are the two providers that returned a value for a field,
\* the values differ, and the field's priority list ranks P before Q, the
\* resolved value is P's and Q's value is among the conflicts.
PriorityWinsConflict ==
    (pc = "done" /\ ~req.malformed /\ strategy = "priority") =>
        \A f \in Fields : \A P \in Providers : \A Q \in Providers \ {P} :
            LET all == executions \o fallbackExecutions
                valuesOf(p) == {all[i].data[f] : i \in {k \in 1..Len(all) :
                                   /\ all[k].provider = p
                                   /\ all[k].success
                                   /\ all[k].data[f] # UNDEF}}
                rank(p) == CHOOSE i \in 1..Len(fieldPriorities[f]) : fieldPriorities[f][i] = p
            IN  (/\ Includes(req.fields, f)
                 /\ Registered(P) /\ Registered(Q)
                 /\ Includes(fieldPriorities[f], P) /\ Includes(fieldPriorities[f], Q)
                 /\ rank(P) < rank(Q)
                 /\ Cardinality(valuesOf(P)) = 1 /\ Cardinality(valuesOf(Q)) = 1
                 /\ \A R \in Providers \ {P, Q} : valuesOf(R) = {}
                 /\ \A v \in valuesOf(P) : \A w \in valuesOf(Q) : ~DeepEqual(v, w))
                => /\ response.results[f].value \in valuesOf(P)
                   /\ \E c \in 1..Len(response.results[f].conflicts) :
                         /\ response.results[f].conflicts[c].provider = Q
                         /\ response.results[f].conflicts[c].value \in valuesOf(Q)

\* C3: every requested field either has a value in data, or errors
\* holds an entry for a provider consulted or named for it (its primary, its
\* fallbacks, every provider asked for it, its priority list, or the 'unknown'
\* placeholder), or a provider consulted for it answered successfully without it.
NoFieldLostSilently ==
    (pc = "done" /\ ~req.malformed) =>
        \A f \in Fields :
            LET all == executions \o fallbackExecutions
                consulted ==
                    {routingPlan[f].provider, "unknown"}
                        \cup Range(routingPlan[f].fallbackProviders)
                        \cup Range(fieldPriorities[f])
                        \cup {providerRequests[i].provider : i \in {k \in 1..Len(providerRequests) :
                                 Includes(providerRequests[k].fields, f)}}
            IN  Includes(req.fields, f) =>
                   \/ response.data.fields[f] # UNDEF
                   \/ \E j \in 1..Len(response.errors) :
                         response.errors[j].provider \in consulted
                   \/ \E i \in 1..Len(all) :
                         all[i].success /\ all[i].provider \in consulted

AgreementIsCertain ==
    (pc = "done" /\ ~req.malformed) =>
        \A f \in Fields :
            LET all == executions \o fallbackExecutions
                valid == SelectSeq(all, LAMBDA e : e.success /\ e.data[f] # UNDEF)
                r == response.results[f]
            IN  (/\ Includes(req.fields, f)
                 /\ Len(valid) >= 2
                 /\ \A i, j \in 1..Len(valid) :
                       JSONstringify(valid[i].data[f]) = JSONstringify(valid[j].data[f]))
                => /\ r.present
                   /\ r.confidence[1] = r.confidence[2]
                   /\ ~r.hasConflicts
                   /\ r.conflicts = <<>>
                   /\ r.sources = [i \in 1..Len(valid) |-> valid[i].provider]
                   /\ response.data.fields[f] = valid[1].data[f]

\* C6 witness: under the 'majority' strategy three providers returned the
\* same f1 and the result is certain, without conflicts, from all three.
ThreeAgreeUnderMajority ==
    /\ pc = "done"
    /\ ~req.malformed
    /\ strategy = "majority"
    /\ Len(response.results["f1"].sources) = 3
    /\ response.results["f1"].confidence = <<1, 1>>
    /\ ~response.results["f1"].hasConflicts
    /\ \A i \in 1..Len(executions) :
          executions[i].success /\ executions[i].data["f1"] = "n046"

(***************************************************************************)
(* Claims about MemoryCache (checked under CacheSpec)                      *)
(***************************************************************************)
\* C7: get never returns a stored value once now > expiresAt. Every get(k) step
\* returns the stored value when k is present and now <= expiresAt, and otherwise
\* returns null; when k is present with now > expiresAt the entry is removed.
GetHonoursExpiry ==
    [][\A k \in Keys :
        (cLast'.op = "get" /\ cLast'.key = k) =>
            /\ IF cache[k] # NoEntry /\ now <= cache[k].expiresAt
               THEN cLast'.ret = cache[k].value /\ cache'[k] = cache[k]
               ELSE cLast'.ret = NULL
            /\ (cache[k] # NoEntry /\ now > cache[k].expiresAt) => cache'[k] = NoEntry]_vars

\* C7 witness: a get found its key present but expired and returned null.
ExpiredGetSeen ==
    /\ cLast.op = "get"
    /\ cLast.ret = NULL
    /\ cLast.events = <<<<"expired", cLast.key>>>>
    /\ cache[cLast.key] = NoEntry

\* C8: when set inserts a new key into a cache that holds maxSize entries (at least
\* one), exactly one entry is removed and it is the least recently used one (use =
\* the most recent successful get or set); below maxSize nothing is removed.
EvictsLeastRecentlyUsed ==
    [][\A k \in Keys :
        (cache[k] = NoEntry /\ cache'[k] # NoEntry /\ Present(cache) # {}) =>
            IF Cardinality(Present(cache)) >= options.maxSize
            THEN /\ Len(recency) > 0
                 /\ Present(cache) \ Present(cache') = {recency[Len(recency)]}
                 /\ Present(cache') = (Present(cache) \ {recency[Len(recency)]}) \cup {k}
            ELSE Present(cache') = Present(cache) \cup {k}]_vars

\* C8 witness: a set evicted a key that was inserted after a key that is still
\* cached (the older key was used in between).
EvictionSpared ==
    /\ cLast.op = "set"
    /\ options.maxSize = 2
    /\ \E x \in Keys : cLast.events = <<<<"evicted", x>>, <<"set", cLast.key>>>>
    /\ Cardinality(Present(cache)) = 2

\* C9: the number of entries never exceeds maxSize, for every configured maxSize.
CacheBounded == Cardinality(Present(cache)) <= options.maxSize

(***************************************************************************)
(* Claims about CircuitBreaker (checked under BreakerSpec)                 *)
(***************************************************************************)
\* C10: a closed breaker opens exactly when a call fails and that failure is the
\* failureThreshold-th consecutive one; a success while closed resets the failure
\* count to zero and fewer consecutive failures leave the breaker closed.
OpensAtThreshold ==
    [][/\ (state = "closed" /\ state' = "open") => cbLast' = "failure"
       /\ (state = "closed" /\ cbLast' = "failure") =>
              /\ (state' = "open") <=> (consecutive' = config.failureThreshold)
              /\ state' \in {"open", "closed"}
              /\ consecutive' <= config.failureThreshold
       /\ (state = "closed" /\ cbLast' = "success") =>
              (state' = "closed" /\ failures' = 0)]_vars

\* C10 witness: the breaker opened on the second of two consecutive failures.
OpenedOnSecondFailure ==
    /\ state = "open"
    /\ cbLast = "failure"
    /\ config.failureThreshold = 2
    /\ consecutive = 2

\* C11: while the breaker is open, execute invokes the function exactly when
\* at least recoveryTime has elapsed since the last failure, and the breaker
\* is then half-open; otherwise execute rejects without invoking it and leaves
\* state, failure count and last-failure time as they were.  execute rejects
\* with the breaker error in no other state.
RecoveryGate ==
    [][/\ cbLast' = "reject" => state = "open"
       /\ state = "open" =>
            /\ lastFailureTime # NoTime
            /\ cbLast' = "admit" =>
                  /\ cbNow - lastFailureTime >= config.recoveryTime
                  /\ state' = "half-open"
                  /\ inFlight' = inFlight + 1
            /\ cbLast' = "reject" =>
                  /\ cbNow - lastFailureTime < config.recoveryTime
                  /\ state' = "open"
                  /\ failures' = failures
                  /\ lastFailureTime' = lastFailureTime
                  /\ inFlight' = inFlight
            /\ cbNow - lastFailureTime >= config.recoveryTime => cbLast' # "reject"
            /\ cbNow - lastFailureTime < config.recoveryTime => cbLast' # "admit"]_vars

\* C11 witness: an execute was rejected by an open breaker one tick after the
\* last failure, recoveryTime being two ticks.
RejectedBeforeRecovery ==
    /\ cbLast = "reject"
    /\ state = "open"
    /\ config.recoveryTime = 2
    /\ cbNow - lastFailureTime = 1

\* C12: a call admitted while the breaker is half-open fails (no other call
\* in flight, the breaker still half-open): the breaker is open afterwards.
HalfOpenFailureOpens ==
    [][(/\ state = "half-open"
        /\ inFlight = 1
        /\ cbLast' = "failure"
        /\ cbAdmittedIn' = "half-open") => state' = "open"]_vars

\* C13: a call admitted while the breaker is half-open succeeds (no other
\* call in flight): the breaker closes exactly when this is the
\* successThreshold-th success in a row since it became half-open.
ClosesAfterSuccessThreshold ==
    [][(/\ state = "half-open"
        /\ inFlight = 1
        /\ cbLast' = "success"
        /\ cbAdmittedIn' = "half-open")
          => (state' = "closed" <=> halfOpenSuccesses' = config.successThreshold)]_vars

(***************************************************************************)
(* Claims about RetryExecutor (checked under RetrySpec)                    *)
(***************************************************************************)
\* C14: execute invokes fn at most maxAttempts times.  If every invocation
\* failed with a retryable error that no shouldRetry predicate vetoed, fn was
\* invoked exactly maxAttempts times and execute rejected with the error of
\* the last invocation.  If an invocation succeeded, it is the last one and
\* execute resolved.
InvocationBudget ==
    LET n == Len(invocations)
        retryable == {"network", "provider", "rate_limit", "timeout", "plain_network"}
    IN  /\ n + (IF rPc = "calling" THEN 1 ELSE 0) <= Max(0, retryConfig.maxAttempts)
        /\ \A i \in 1..n :
              invocations[i].outcome = "ok" =>
                  i = n /\ rPc = "resolved" /\ settled.kind = "resolved"
        /\ rPc = "resolved" => n >= 1 /\ invocations[n].outcome = "ok"
        /\ (/\ rPc = "rejected"
            /\ \A i \in 1..n :
                  /\ invocations[i].outcome \in retryable
                  /\ ~(invocations[i].asked /\ ~invocations[i].verdict))
              => /\ n = retryConfig.maxAttempts
                 /\ settled.kind = "rejected"
                 /\ n >= 1 => settled.error = invocations[n].outcome

\* C14 witness: three attempts allowed, three retryable failures, rejected
\* with the third error.
ExhaustedAfterThree ==
    /\ rPc = "rejected"
    /\ retryConfig.maxAttempts = 3
    /\ Len(invocations) = 3
    /\ invocations[1].outcome = "network"
    /\ invocations[2].outcome = "rate_limit"
    /\ invocations[3].outcome = "timeout"
    /\ settled = [kind |-> "rejected", error |-> "timeout"]

\* C15: an invocation failing with a validation, authentication or
\* configuration error is the last one: execute rejects with that error and
\* does not sleep after it (so a first failure of that kind means exactly one
\* invocation and no sleep, whatever maxAttempts is).  A network, rate_limit,
\* timeout or provider error that is not vetoed is retried while attempts
\* remain.
NonRetryableAborts ==
    LET n == Len(invocations)
    IN  \A i \in 1..n :
           /\ invocations[i].outcome \in {"validation", "authentication", "configuration"}
                 => /\ i = n
                    /\ rPc = "rejected"
                    /\ settled = [kind |-> "rejected", error |-> invocations[i].outcome]
                    /\ Len(slept) = i - 1
           /\ (/\ invocations[i].outcome \in {"network", "rate_limit", "timeout", "provider"}
               /\ i < retryConfig.maxAttempts
               /\ ~(invocations[i].asked /\ ~invocations[i].verdict))
                 => /\ Len(slept) >= i
                    /\ rPc \in {"resolved", "rejected"} => n > i

\* C15 witness: three attempts allowed, the first invocation failed with a
\* validation error, execute rejected at once without sleeping.
ValidationAbortedAtOnce ==
    /\ rPc = "rejected"
    /\ retryConfig.maxAttempts = 3
    /\ Len(invocations) = 1
    /\ invocations[1].outcome = "validation"
    /\ slept = <<>>
    /\ settled = [kind |-> "rejected", error |-> "validation"]

\* C16: a shouldRetry predicate can only veto.  If it answered false for the
\* error of an attempt before the last, execute rejected with that error and
\* made no further attempt; if it answered true, the built-in classification
\* still decided: a non-retryable error was rethrown, a retryable one retried.
PredicateOnlyVetoes ==
    LET n == Len(invocations)
        retryable == {"network", "provider", "rate_limit", "timeout", "plain_network"}
    IN  \A i \in 1..n :
           invocations[i].asked =>
              /\ i < retryConfig.maxAttempts
              /\ IF ~invocations[i].verdict \/ invocations[i].outcome \notin retryable
                 THEN /\ i = n
                      /\ rPc = "rejected"
                      /\ settled = [kind |-> "rejected", error |-> invocations[i].outcome]
                      /\ Len(slept) = i - 1
                 ELSE /\ Len(slept) >= i
                      /\ rPc \in {"resolved", "rejected"} => n > i

\* C16 witness: the predicate answered true for an authentication error of the
\* first of three attempts, and execute rejected with it all the same.
ApprovedButNotRetried ==
    /\ rPc = "rejected"
    /\ retryConfig.maxAttempts = 3
    /\ Len(invocations) = 1
    /\ invocations[1] = [outcome |-> "authentication", asked |-> TRUE, verdict |-> TRUE]
    /\ settled = [kind |-> "rejected", error |-> "authentication"]

\* C17: once execute has settled, getAttempts() holds exactly one record per
\* invocation of fn made by that call, numbered 1..n in invocation order, with
\* an error on exactly the failed invocations.
AttemptsMirrorInvocations ==
    rPc \in {"resolved", "rejected"} =>
        /\ Len(attempts) = Len(invocations)
        /\ \A i \in 1..Len(attempts) :
              /\ attempts[i].attempt = i
              /\ attempts[i].error =
                    (IF invocations[i].outcome = "ok" THEN "none" ELSE invocations[i].outcome)

\* C17 witness: a call that failed twice and then succeeded left three records,
\* the first two with their errors, the third without.
ThreeRecordsAfterSuccess ==
    /\ rPc = "resolved"
    /\ Len(attempts) = 3
    /\ attempts[1].error = "timeout"
    /\ attempts[2].error = "provider"
    /\ attempts[3] = [attempt |-> 3, delay |-> 0, error |-> "none"]

\* C18: no delay the executor sleeps between two attempts exceeds maxDelay.
DelayWithinMaxDelay ==
    \A i \in 1..Len(slept) : slept[i] <= retryConfig.maxDelay

(***************************************************************************)
(* Claims about FieldRouter (checked under RouterSpec)                     *)
(***************************************************************************)
\* C19: getOptimalProvider under 'priority', for a field with priority list L
\* and candidate list C: null when C is empty; otherwise the first element of
\* L that occurs in C, entries of L that are not candidates being skipped; and
\* the first candidate when L is missing or none of its entries is in C.
OptimalFollowsPriority ==
    routed.op = "getOptimalProvider" =>
        LET L == fieldPriorities[routed.field]
            C == routed.candidates
            hits == {i \in 1..Len(L) : \E j \in 1..Len(C) : C[j] = L[i]}
        IN  IF C = <<>> THEN routed.provider = NULL
            ELSE IF hits = {} THEN routed.provider = C[1]
            ELSE \E i \in hits :
                    /\ \A k \in hits : i <= k
                    /\ routed.provider = L[i]

\* C19 witness: priority list C, A, B and candidates B, A (C is not one):
\* the answer is A, the second priority entry and not the first candidate.
SkippedUnavailablePriority ==
    /\ routed.op = "getOptimalProvider"
    /\ fieldPriorities[routed.field] = <<"C", "A", "B">>
    /\ routed.candidates = <<"B", "A">>
    /\ routed.provider = "A"

\* C20: after any register / unregister / setFieldPriority calls, a requested
\* field is absent from the routing plan exactly when no registered provider
\* declares it and it has no (non-empty) priority list; when no provider
\* declares it but a priority list exists, the plan names the first priority
\* entry as primary with estimated success rate 0.
PlanAbsentOnlyWithoutPriorities ==
    routed.op = "planRouting" =>
        \A n \in 1..Len(routed.fields) :
            LET f == routed.fields[n]
                declared == \E p \in Providers : providers[p].registered /\ f \in providers[p].caps
            IN  /\ ~routed.plan[f].exists <=> (~declared /\ Len(fieldPriorities[f]) = 0)
                /\ (~declared /\ Len(fieldPriorities[f]) > 0) =>
                      /\ routed.plan[f].provider = fieldPriorities[f][1]
                      /\ routed.plan[f].estimated.successRate[1] = 0
                /\ declared =>
                      /\ providers[routed.plan[f].provider].registered
                      /\ f \in providers[routed.plan[f].provider].caps

\* C20 witness: B was registered declaring f1 only; f2, declared by nobody, has
\* the priority list C, A, B and is planned on C with success rate 0, while f1
\* is planned on B.
UndeclaredFieldPlannedOnPriority ==
    /\ routed.op = "planRouting"
    /\ routed.fields = <<"f1", "f2">>
    /\ registrationOrder = <<"B">>
    /\ fieldPriorities["f2"] = <<"C", "A", "B">>
    /\ routed.plan["f2"].exists
    /\ routed.plan["f2"].provider = "C"
    /\ routed.plan["f2"].estimated.successRate = <<0, 1>>
    /\ routed.plan["f1"].provider = "B"

(***************************************************************************)
(* Claims about the provider metrics                                       *)
(***************************************************************************)
\* C21: after every router step, each registered provider's totalRequests is
\* the number of updateMetrics calls made for it since it was registered,
\* failedRequests the number of those with success = false,
\* 0 <= failedRequests <= totalRequests, and once a call has been made
\* successRate = (totalRequests - failedRequests) / totalRequests; an
\* updateMetrics call for a name that is not registered changes nothing in
\* the router.
MetricsCountCalls ==
    [][/\ \A p \in Providers :
            providers'[p].registered =>
                LET m == metrics'[p]
                IN  /\ m.present
                    /\ m.totalRequests = calls'[p].updates
                    /\ m.failedRequests = calls'[p].failed
                    /\ 0 <= m.failedRequests
                    /\ m.failedRequests <= m.totalRequests
                    /\ m.totalRequests > 0 =>
                          /\ m.successRate[2] # 0
                          /\ m.successRate[1] * m.totalRequests
                                = (m.totalRequests - m.failedRequests) * m.successRate[2]
       /\ (routed'.op = "updateMetrics" /\ ~providers[routed'.provider].registered) =>
            UNCHANGED <<providers, fieldPriorities, metrics, registrationOrder>>]_vars

\* C21 witness: A has been reported on three times since its registration,
\* once as failed, and the last call named B, which is not registered.
ThreeUpdatesOneFailed ==
    /\ Registered("A")
    /\ calls["A"].updates = 3
    /\ calls["A"].failed = 1
    /\ metrics["A"].totalRequests = 3
    /\ ~Registered("B")
    /\ routed.op = "updateMetrics"
    /\ routed.provider = "B"

\* C22: in every state of the router, any two updateMetrics calls on the same
\* provider leave the same metrics (avgResponseTime, totalRequests,
\* failedRequests, successRate) whichever of them is made first.
MetricsCommute ==
    \A p \in Providers, r1 \in ResponseTimes, r2 \in ResponseTimes,
       s1 \in BOOLEAN, s2 \in BOOLEAN :
        LET ab == updateMetrics(updateMetrics(metrics, p, r1, s1), p, r2, s2)[p]
            ba == updateMetrics(updateMetrics(metrics, p, r2, s2), p, r1, s1)[p]
        IN  /\ ab.totalRequests = ba.totalRequests
            /\ ab.failedRequests = ba.failedRequests
            /\ ab.successRate[1] * ba.successRate[2] = ba.successRate[1] * ab.successRate[2]
            /\ ab.avgDen = ba.avgDen
            /\ ab.avgNum = ba.avgNum

\* C22 (amended): any two updateMetrics calls on the same provider leave the
\* same totalRequests, failedRequests and successRate in either order, and
\* the same avgResponseTime when at most one of them is a success or their
\* response times are equal; for a registered provider two successes with
\* different response times leave different averages.
CountsCommuteAverageByOrder ==
    \A p \in Providers, r1 \in ResponseTimes, r2 \in ResponseTimes,
       s1 \in BOOLEAN, s2 \in BOOLEAN :
        LET ab == updateMetrics(updateMetrics(metrics, p, r1, s1), p, r2, s2)[p]
            ba == updateMetrics(updateMetrics(metrics, p, r2, s2), p, r1, s1)[p]
            \* both orders reach the same denominator
            sameAverage == ab.avgDen = ba.avgDen /\ ab.avgNum = ba.avgNum
        IN  /\ ab.totalRequests = ba.totalRequests
            /\ ab.failedRequests = ba.failedRequests
            /\ ab.successRate[1] * ba.successRate[2] = ba.successRate[1] * ab.successRate[2]
            /\ (~(s1 /\ s2) \/ r1 = r2) => sameAverage
            /\ (Registered(p) /\ s1 /\ s2 /\ r1 # r2) => ~sameAverage

\* C22 witness: A has been reported on twice, a success in 10 ms and a
\* failure, which leave an average of 901 ms in either order.
MixedPairApplied ==
    /\ Registered("A")
    /\ metrics["A"].totalRequests = 2
    /\ metrics["A"].failedRequests = 1
    /\ metrics["A"].avgNum = 901 * metrics["A"].avgDen

\* C23: every provider call the aggregator has made and seen settle, in the
\* parallel phase or as a fallback, whether it answered with success, answered
\* with failure, threw or timed out, has raised that provider's
\* totalRequests by exactly one.
EveryCallCounted ==
    \A p \in Providers :
        Registered(p) => metrics[p].totalRequests = calls[p].invoked

(***************************************************************************)
(* Claims about late provider responses                                    *)
(***************************************************************************)
\* C27: when the response of a call arrives after the call's timeout has
\* fired, the step changes neither the provider metrics nor anything the
\* aggregation response is built from or the response itself; and the step
\* in which a call is timed out and abandoned counts it once, as a failure,
\* in that provider's metrics.
LateResponseDiscarded ==
    [][\A p \in Providers :
          /\ calls'[p].arrived > calls[p].arrived =>
                UNCHANGED <<metrics, response, executions, fallbackExecutions, cursor, pc>>
          /\ calls'[p].abandoned > calls[p].abandoned =>
                /\ metrics'[p].totalRequests = metrics[p].totalRequests + 1
                /\ metrics'[p].failedRequests = metrics[p].failedRequests + 1]_vars

(***************************************************************************)
(* Claims about the sources of a field                                     *)
(***************************************************************************)
\* C28: in a returned aggregation, every field aggregation result names at
\* least one source, every source is a provider with a successful execution
\* in this request whose data holds the chosen value of the field, and
\* data.dataSource names only providers with a successful execution.
SourcesSucceeded ==
    (pc = "done" /\ ~req.malformed) =>
        LET all == executions \o fallbackExecutions
            succeeded == {all[i].provider : i \in {k \in 1..Len(all) : all[k].success}}
        IN  /\ \A f \in Fields :
                  LET r == response.results[f]
                  IN  r.present =>
                        /\ Len(r.sources) >= 1
                        /\ \A n \in 1..Len(r.sources) :
                              \E i \in 1..Len(all) :
                                  /\ all[i].provider = r.sources[n]
                                  /\ all[i].success
                                  /\ all[i].data[f] # UNDEF
                                  /\ JSONstringify(all[i].data[f]) = JSONstringify(r.value)
            /\ Range(response.data.dataSource) \subseteq succeeded

\* C28 witness: under majority resolution two of three successful providers
\* agree on f1 and are its sources, the third is not, and a provider that
\* failed is absent from data.dataSource.
MajoritySourcesAgree ==
    /\ pc = "done"
    /\ strategy = "majority"
    /\ response.results["f1"].hasConflicts
    /\ Len(response.results["f1"].sources) = 2
    /\ \E i \in 1..Len(executions) :
          /\ executions[i].success
          /\ executions[i].data["f1"] # UNDEF
          /\ ~Includes(response.results["f1"].sources, executions[i].provider)
    /\ \E i \in 1..Len(executions) :
          /\ ~executions[i].success
          /\ ~Includes(response.data.dataSource, executions[i].provider)

(***************************************************************************)
(* Claims about the fallback chain                                         *)
(***************************************************************************)
\* C30: the fallback calls made for one field come in plan order, one after
\* the other: when fallback j of a field is called, every earlier fallback
\* of that field was either skipped (not registered, or successful in the
\* parallel phase) or called before and failed, and no fallback call for
\* that field has succeeded before.
FallbacksSequential ==
    \A n \in 1..Len(fallbackLog) :
        LET c == fallbackLog[n]
            fbs == routingPlan[c.field].fallbackProviders
            before == {m \in 1..(n - 1) : fallbackLog[m].field = c.field}
            skipped(p) ==
                \/ ~Registered(p)
                \/ \E e \in 1..Len(executions) :
                      executions[e].provider = p /\ executions[e].success
        IN  /\ c.index \in 1..Len(fbs)
            /\ fbs[c.index] = c.provider
            /\ \A m \in before : ~fallbackLog[m].ok /\ fallbackLog[m].index < c.index
            /\ \A k \in 1..(c.index - 1) :
                  \/ skipped(fbs[k])
                  \/ \E m \in before : fallbackLog[m].index = k /\ ~fallbackLog[m].ok

\* C30 witness: for f1 the first fallback was called and failed, then the
\* second was called and succeeded, and the request was answered.
SecondFallbackAfterFirstFailed ==
    /\ pc = "done"
    /\ Len(routingPlan["f1"].fallbackProviders) = 2
    /\ \E n \in 1..Len(fallbackLog), m \in 1..Len(fallbackLog) :
          /\ m < n
          /\ fallbackLog[m] = [field |-> "f1", index |-> 1,
                               provider |-> routingPlan["f1"].fallbackProviders[1],
                               ok |-> FALSE]
          /\ fallbackLog[n].field = "f1"
          /\ fallbackLog[n].index = 2
          /\ fallbackLog[n].ok

(***************************************************************************)
(* Claims about zero TTL and cache events                                  *)
(***************************************************************************)
\* C25: a get that directly follows set(key, value, 0) on the same key (the
\* entry's expiresAt is the time of the set), with no time elapsed in
\* between, does not return the value.
ZeroTtlNeverRead ==
    [][(/\ cLast.op = "set"
        /\ cache[cLast.key].expiresAt = now
        /\ cLast'.op = "get"
        /\ cLast'.key = cLast.key) => cLast'.ret = NULL]_vars

\* C26: every cache operation that adds, replaces or removes an entry
\* delivers at least one event to every registered listener, the listeners
\* after a throwing one included.
MutationsAnnounced ==
    [][cache' # cache =>
          \A l \in Range(eventListeners) : delivered(cLast'.events)[l] # <<>>]_vars

(***************************************************************************)
(* Claims about the cache keys                                             *)
(***************************************************************************)
\* C24: the key a builder returned is the key it returns for every reordering
\* of the fields array (and of the providers array) with the other arguments
\* kept, and the call left the caller's arrays in the order they had.
KeyIgnoresOrder ==
    LET IsReordering(s, t) ==
            /\ Len(s) = Len(t)
            /\ \A x \in Range(s) \cup Range(t) :
                  Cardinality({i \in 1..Len(s) : s[i] = x})
                      = Cardinality({i \in 1..Len(t) : t[i] = x})
        keyOf(fields, providerList) ==
            CASE keyCall.op = "buildTokenDataKey" ->
                    buildTokenDataKey(keyCall.identifier, fields, keyCall.provider)
              [] keyCall.op = "buildWalletDataKey" ->
                    buildWalletDataKey(keyCall.identifier, fields, keyCall.provider)
              [] OTHER ->
                    buildAggregatedKey(keyCall.type, keyCall.identifier, fields,
                                       providerList)
    IN  keyCall.called =>
            /\ keyCall.fieldsAfter = keyCall.fields
            /\ keyCall.providersAfter = keyCall.providers
            /\ \A fields \in FieldArrays, providerList \in ProviderArrays :
                  (IsReordering(fields, keyCall.fields)
                      /\ IsReordering(providerList, keyCall.providers))
                  => keyOf(fields, providerList) = keyCall.key

\* C24 witness: an aggregated key was built from fields and providers that
\* were both out of order, one field twice, and the arrays are as handed in.
UnsortedArraysKeyed ==
    /\ keyCall.op = "buildAggregatedKey"
    /\ keyCall.called
    /\ keyCall.fields = <<"price", "TVL", "price">>
    /\ keyCall.fieldsAfter = <<"price", "TVL", "price">>
    /\ keyCall.providers = <<"coingecko", "blockfrost">>
    /\ keyCall.key = buildAggregatedKey(keyCall.type, keyCall.identifier,
                                        <<"TVL", "price", "price">>,
                                        <<"blockfrost", "coingecko">>)

(***************************************************************************)
(* Claims about the recorded retry delays                                  *)
(***************************************************************************)
\* C29: the delay recorded for an attempt is the time the executor waited
\* after it: the delay slept before the next attempt when one followed, and
\* 0 when none did (success, last attempt, veto, non-retryable error).
RecordedDelayIsWait ==
    \A i \in 1..Len(attempts) :
        attempts[i].delay = IF i <= Len(slept) THEN slept[i] ELSE 0


(***************************************************************************)
(* Claims about the provider calls of one request                          *)
(***************************************************************************)
\* C31: within one request no provider answers successfully more than once,
\* counting the parallel phase and the fallbacks of every field.
NoProviderSucceedsTwice ==
    \A p \in Providers :
        Cardinality({i \in 1..Len(executions) :
                        executions[i].provider = p /\ executions[i].success})
            + Cardinality({i \in 1..Len(fallbackLog) :
                              fallbackLog[i].provider = p /\ fallbackLog[i].ok}) <= 1

\* C32: once a request has started its parallel phase, every registered
\* provider on a multi-entry priority list of a requested field that declares
\* the field has a call in that phase, and no provider has two.
PriorityProvidersCalled ==
    (pc # "idle" /\ ~req.malformed) =>
        /\ \A i \in 1..Len(req.fields) :
              LET f == req.fields[i]
              IN  Len(fieldPriorities[f]) > 1 =>
                      \A k \in 1..Len(fieldPriorities[f]) :
                          LET p == fieldPriorities[f][k]
                          IN  (Registered(p) /\ f \in providers[p].caps) =>
                                  \E e \in 1..Len(executions) : executions[e].provider = p
        /\ \A d, e \in 1..Len(executions) :
              executions[d].provider = executions[e].provider => d = e

(***************************************************************************)
(* Claims about the routing plan                                           *)
(***************************************************************************)
\* C33: the plan of a requested field that has a candidate provider lists as
\* fallbacks the candidates other than the primary, each once, a higher
\* success rate first and, of two equal success rates, the lower average
\* response time first.
PlanFallbacksOrdered ==
    routed.op = "planRouting" =>
        \A f \in Range(routed.fields) :
            LET candidates == {p \in Providers : Registered(p) /\ f \in providers[p].caps}
                plan == routed.plan[f]
                fb == plan.fallbackProviders
                rate(p) == metrics[p].successRate
                higherRate(p, q) == rate(p)[1] * rate(q)[2] > rate(q)[1] * rate(p)[2]
                slower(p, q) ==
                    metrics[p].avgNum * metrics[q].avgDen
                        > metrics[q].avgNum * metrics[p].avgDen
            IN  candidates # {} =>
                    /\ plan.exists
                    /\ plan.provider \in candidates
                    /\ Range(fb) = candidates \ {plan.provider}
                    /\ Len(fb) = Cardinality(Range(fb))
                    /\ \A i, j \in 1..Len(fb) :
                          i < j =>
                              /\ ~higherRate(fb[j], fb[i])
                              /\ ~higherRate(fb[i], fb[j]) => ~slower(fb[i], fb[j])

\* C33 witness: a plan whose two fallbacks have the same success rate and
\* stand against their registration order, the faster one first.
FasterFallbackFirst ==
    /\ routed.op = "planRouting"
    /\ routed.plan["f1"].provider = "A"
    /\ routed.plan["f1"].fallbackProviders = <<"C", "B">>
    /\ metrics["B"].successRate = metrics["C"].successRate
    /\ metrics["C"].avgNum * metrics["B"].avgDen < metrics["B"].avgNum * metrics["C"].avgDen

(***************************************************************************)
(* Claims about majority resolution                                        *)
(***************************************************************************)
\* C34: under 'majority', a requested field for which the successful
\* executions returned at least two distinct values resolves to a value no
\* other value was returned more often than, the first returned of those;
\* its confidence is the number of executions that returned it over the
\* number that returned the field, its sources are the providers that returned
\* it, and every other distinct value is listed once in conflicts.
MajorityPicksMostFrequent ==
    (pc = "done" /\ ~req.malformed /\ strategy = "majority") =>
        \A f \in Fields :
            LET all == executions \o fallbackExecutions
                valid == SelectSeq(all, LAMBDA e : e.success /\ e.data[f] # UNDEF)
                json(i) == JSONstringify(valid[i].data[f])
                same(i) == {j \in 1..Len(valid) : json(j) = json(i)}
                r == response.results[f]
                chosen == {i \in 1..Len(valid) : valid[i].data[f] = r.value}
                others == {json(i) : i \in 1..Len(valid)} \ {JSONstringify(r.value)}
            IN  (/\ Includes(req.fields, f)
                 /\ \E i, j \in 1..Len(valid) : json(i) # json(j))
                => /\ r.present
                   /\ chosen # {}
                   /\ \A i \in 1..Len(valid) :
                         /\ Cardinality(same(i)) <= Cardinality(chosen)
                         /\ Cardinality(same(i)) = Cardinality(chosen)
                               => \E c \in chosen : c <= i
                   /\ r.confidence = <<Cardinality(chosen), Len(valid)>>
                   /\ r.sources = [i \in 1..Cardinality(chosen) |->
                                     SelectSeq(valid,
                                               LAMBDA e : e.data[f] = r.value)[i].provider]
                   /\ r.hasConflicts
                   /\ {JSONstringify(r.conflicts[i].value) : i \in 1..Len(r.conflicts)} = others
                   /\ Len(r.conflicts) = Cardinality(others)
                   /\ response.data.fields[f] = r.value

\* C34 witness: three providers returned f1, the first a value of its own, and
\* the value of the other two won with confidence 2/3.
LaterValueOutvotesFirst ==
    /\ pc = "done"
    /\ strategy = "majority"
    /\ Len(executions) = 3
    /\ \A i \in 1..3 : executions[i].success
    /\ executions[1].data["f1"] = "n045"
    /\ response.results["f1"].value = "n046"
    /\ response.results["f1"].confidence = <<2, 3>>
    /\ Len(response.results["f1"].conflicts) = 1

(***************************************************************************)
(* Claims about the error list                                             *)
(***************************************************************************)
\* C35: the response of a request names, in a recoverable error, every
\* provider one of whose calls failed, in the parallel phase or as a fallback.
EveryFailedCallReported ==
    (pc = "done" /\ ~req.malformed) =>
        LET reported(p) ==
                \E e \in 1..Len(response.errors) :
                    response.errors[e].provider = p /\ response.errors[e].recoverable
        IN  /\ \A i \in 1..Len(executions) :
                  ~executions[i].success => reported(executions[i].provider)
            /\ \A n \in 1..Len(fallbackLog) :
                  ~fallbackLog[n].ok => reported(fallbackLog[n].provider)

(***************************************************************************)
(* Claims about the recency list                                           *)
(***************************************************************************)
\* C36: after any sequence of cache operations the recency list is a
\* well-formed doubly linked list from head to tail holding exactly the keys
\* of the map, each once, and stats.size is the number of entries.
RecencyListWellFormed ==
    LET RECURSIVE walk(_, _)
        walk(k, fuel) ==
            IF k = NULL \/ fuel = 0 THEN <<>> ELSE <<k>> \o walk(next[k], fuel - 1)
        list == walk(head, Cardinality(Keys) + 1)
    IN  /\ Range(list) = Present(cache)
        /\ Len(list) = Cardinality(Present(cache))
        /\ (head = NULL) = (Present(cache) = {})
        /\ (tail = NULL) = (Present(cache) = {})
        /\ head # NULL => prev[head] = NULL
        /\ tail # NULL => next[tail] = NULL /\ list[Len(list)] = tail
        /\ \A i \in 1..Len(list) :
              /\ i > 1 => prev[list[i]] = list[i - 1]
              /\ i < Len(list) => next[list[i]] = list[i + 1]
        /\ statsSize = Cardinality(Present(cache))

\* C36 witness: a full cache of two entries, the least recently used of three
\* keys evicted, the list running from the newest key to the older one.
TwoLinkedAfterEviction ==
    /\ cLast.op = "set"
    /\ options.maxSize = 2
    /\ Cardinality(Present(cache)) = 2
    /\ \E i \in 1..Len(cLast.events) : cLast.events[i][1] = "evicted"
    /\ head # tail
    /\ next[head] = tail
    /\ prev[tail] = head

(***************************************************************************)
(* Claims about the breaker's invariants and recovery                      *)
(***************************************************************************)
\* C37: a closed breaker has counted fewer failures than failureThreshold.
ClosedBelowThreshold ==
    state = "closed" => failures < config.failureThreshold

\* C37 witness: a failure has just been counted with another call still in
\* flight, and the breaker is closed one failure short of its threshold.
ClosedOneShortOfThreshold ==
    /\ state = "closed"
    /\ cbLast = "failure"
    /\ inFlight > 0
    /\ failures = config.failureThreshold - 1
    /\ failures > 0

\* C40: when from some point on no call fails and recoveryTime has elapsed
\* since the last failure, the breaker eventually is closed and stays closed.
OpenBreakerRecovers ==
    (/\ <>[](cbLast # "failure")
     /\ <>[](lastFailureTime = NoTime \/ cbNow - lastFailureTime >= config.recoveryTime))
        => <>[](state = "closed")

\* C40 witness: a breaker that had opened on its second failure is closed
\* again after two successes of calls admitted half-open.
ClosedAfterRecovery ==
    /\ state = "closed"
    /\ cbLast = "success"
    /\ cbAdmittedIn = "half-open"
    /\ halfOpenSuccesses = 2
    /\ config.failureThreshold = 2
    /\ lastFailureTime # NoTime
    /\ cbNow - lastFailureTime >= config.recoveryTime

(***************************************************************************)
(* Claims about overlapping calls on one RetryExecutor                     *)
(***************************************************************************)
\* C38: with a second call in flight on the same executor, the first call
\* settles by its own outcomes, and when it settles getAttempts() holds
\* exactly one record per invocation of fn it made, numbered in order, with
\* the error of each failed invocation.
OverlapKeepsOwnAttempts ==
    [][(rPc \in {"calling", "sleeping"} /\ rPc' \in {"resolved", "rejected"}) =>
          /\ Len(invocations') >= 1
          /\ (rPc' = "resolved") = (invocations'[Len(invocations')].outcome = "ok")
          /\ Len(attempts') = Len(invocations')
          /\ \A i \in 1..Len(attempts') :
                /\ attempts'[i].attempt = i
                /\ attempts'[i].error =
                      (IF invocations'[i].outcome = "ok" THEN "none"
                       ELSE invocations'[i].outcome)]_vars

(***************************************************************************)
(* Claims about termination                                                *)
(***************************************************************************)
\* C39: every aggregateTokenData / aggregateWalletData call that has started
\* eventually returns.
EveryRequestReturns ==
    (pc # "idle") ~> (pc = "done" /\ response.status = "resolved")

\* C39 witness: a request returned although a call of its parallel phase and
\* a fallback call both ran into their timeout, the fallback answering late.
ReturnedDespiteTimeouts ==
    /\ pc = "done"
    /\ response.status = "resolved"
    /\ \E i \in 1..Len(executions) : executions[i].error = "timeout"
    /\ \E n \in 1..Len(fallbackLog) :
          /\ ~fallbackLog[n].ok
          /\ calls[fallbackLog[n].provider].arrived > 0
=============================================================================
